---- MODULE Spec2Model ----
(***************************************************************************)
(* State synchronisation manager of blackroad-ai-inference-accelerator     *)
(* (src/src/state/sync_manager.py): StateEntry, SyncResult, the platform   *)
(* adapters as value stores, StateSyncManager._put_with_retry,             *)
(* StateSyncManager._resolve_conflict, StateSyncManager.sync,              *)
(* create_entry and health_check_all; the hash chain SHAInfinity of        *)
(* src/src/hashing/sha_infinity.py; and KanbanBoard of                     *)
(* src/src/kanban/board.py with its KanbanHasher.                          *)
(*                                                                         *)
(* The specifications share the variables:                                 *)
(*   SpecRetry    _put_with_retry on every outcome sequence of adapter.put *)
(*   SpecResolve  _resolve_conflict on drawn pairs of entries              *)
(*   Spec         one sync run, one step per source entry and target       *)
(*   SpecRuns     several sync runs in a row over one entry id             *)
(*   SpecCreate   one create_entry call                                    *)
(*   SpecHealth   one health_check_all call                                *)
(*   SpecChain    the operations of SHAInfinity on one chain               *)
(*   SpecValidate field assignments and hash recomputations on one entry   *)
(*   SpecBoard    create_card, move_card and update_card on the main board *)
(***************************************************************************)
EXTENDS Integers, Sequences, FiniteSets, TLC

VARIABLES
    store,                \* platform -> id -> entry held by that adapter
    clock,                \* time.time()
    pc,                   \* position of the running operation
    conflict_resolution,  \* StateSyncManager.conflict_resolution
    retry_attempts,       \* StateSyncManager.retry_attempts
    retry_backoff,        \* StateSyncManager.retry_backoff
    source,               \* sync: source
    targets,              \* sync: targets
    force,                \* sync: force
    source_entries,       \* sync: the list returned by list_entries
    ti,                   \* sync: index of the target being processed
    ei,                   \* sync: index of the next source entry
    synced,               \* sync: synced
    failed,               \* sync: failed
    conflicts,            \* sync: conflicts
    results,              \* sync: results
    start_time,           \* sync: start_time
    handled,              \* history: one record per entry of the current target pass
    runs,                 \* history: number of sync calls made
    put_outs,             \* input: outcomes of the successive adapter.put calls
    put_result,           \* result of _put_with_retry
    arg_source,           \* input: source_entry of _resolve_conflict
    arg_target,           \* input: target_entry of _resolve_conflict
    resolved,             \* result of _resolve_conflict(source, target)
    resolved_rev,         \* result of _resolve_conflict(target, source)
    primary,              \* StateSyncManager.primary
    sync_to,              \* create_entry: sync_to
    ci,                   \* create_entry: index of the next platform of sync_to
    created,              \* create_entry: entry
    put_log,              \* history: the puts create_entry has issued, in order
    probes,               \* input: what each adapter's health_check does
    health,               \* health_check_all: results
    hi,                   \* health_check_all: index of the next adapter
    chain,                \* SHAInfinity.chain: the nodes in order
    hash_index,           \* SHAInfinity.hash_index: hash -> position of the node in chain
    depth_map,            \* SHAInfinity.depth_map: depth -> positions of the nodes in chain
    verify_result,        \* result of the last verify_chain_integrity call
    op,                   \* history: the last operation called on the chain
    out,                  \* what that operation returned
    cards,                \* Board.cards: the cards in order of creation
    columns,              \* Column.cards of each column: card ids in order
    moved_log,            \* history: the calls made to an on_card_moved hook
    bop                   \* history: the last KanbanBoard call and how it ended

createVars == <<primary, sync_to, ci, created, put_log>>
healthVars == <<probes, health, hi>>
chainVars == <<chain, hash_index, depth_map, verify_result, op, out>>
boardVars == <<cards, columns, moved_log, bop>>
extVars == <<createVars, healthVars, chainVars, boardVars>>

vars == <<store, clock, pc, conflict_resolution, retry_attempts, retry_backoff,
          source, targets, force, source_entries, ti, ei, synced, failed,
          conflicts, results, start_time, handled, runs, put_outs, put_result,
          arg_source, arg_target, resolved, resolved_rev, extVars>>

syncVars == <<source, targets, force, source_entries, ti, ei, synced, failed,
              conflicts, results, start_time, handled, runs>>

----------------------------------------------------------------------------
(* Bounds *)

MaxAttempts == 4     \* largest retry_attempts drawn in SpecRetry
MaxVersion == 2      \* largest version of a drawn entry
MaxTime == 2         \* largest timestamp of a drawn entry
MaxRuns == 2         \* sync calls in SpecRuns
MaxClock == 2        \* largest value of the clock in SpecRuns and SpecChain
MaxChain == 3        \* nodes added to the chain in SpecChain
MaxInfChain == 1     \* longest chain compute_infinity_hash is called on
MaxIter == 2         \* largest max_iterations passed to compute_infinity_hash
MaxCards == 3        \* cards created in SpecBoard
MaxHashed == 3       \* hash_card calls in SpecBoard

----------------------------------------------------------------------------
(* Platform, ConflictResolution *)

Platform == {"github", "salesforce", "cloudflare", "local"}

LAST_WRITE_WINS == "last_write_wins"
FIRST_WRITE_WINS == "first_write_wins"
MANUAL == "manual"
MERGE == "merge"
ConflictResolution == {LAST_WRITE_WINS, FIRST_WRITE_WINS, MANUAL, MERGE}

DefaultRetryAttempts == 4
DefaultRetryBackoff == <<2, 4, 8, 16>>

----------------------------------------------------------------------------
(* StateEntry.  A dict is a total function with a marker for a missing key: *)
(* data maps a key of Keys to a value or Absent, synced_at maps a platform  *)
(* to a timestamp or NoTime.                                                *)

Ids == {"CARD-001", "CARD-002"}
IdRank(i) == IF i = "CARD-001" THEN 1 ELSE 2
Types == {"kanban_card", "pr"}
Keys == {"title", "status"}
Absent == 0
Values == {1, 2}
NoTime == -1

NoData == [k \in Keys |-> Absent]
NoSynced == [p \in Platform |-> NoTime]

DataKeys(d) == {k \in Keys : d[k] # Absent}

\* hashlib.sha256 of the canonical JSON of {id, type, data, version}: the
\* digest is identified with the content it digests (no collisions).
Sha256(id, type, data, version) ==
    [id |-> id, type |-> type, data |-> data, version |-> version]

NoHash == Sha256("", "", NoData, 0)

compute_hash_noVersion(e) == Sha256(e.id, e.type, e.data, 0)

\* compute_hash(): the digest of id, type, data and version
compute_hash(e) == Sha256(e.id, e.type, e.data, e.version)

validate_hash(e) == e.sha_hash = compute_hash(e)

StateEntry(id, type, data, sha_hash, created_at, updated_at, synced_at, version) ==
    [id |-> id, type |-> type, data |-> data, sha_hash |-> sha_hash,
     created_at |-> created_at, updated_at |-> updated_at,
     synced_at |-> synced_at, version |-> version]

\* "no entry": what adapter.get returns as None
NoEntry == StateEntry("", "", NoData, NoHash, NoTime, NoTime, NoSynced, 0)

Min(a, b) == IF a <= b THEN a ELSE b
Max(a, b) == IF a >= b THEN a ELSE b

----------------------------------------------------------------------------
(* StateSyncManager._resolve_conflict.  The result names the object that is *)
(* returned: the source entry, the target entry, a new merged entry, or     *)
(* None.                                                                    *)

Resolution(which, entry) == [which |-> which, entry |-> entry]

LastWriteWins_strict(S, T) ==
    IF S.updated_at > T.updated_at
    THEN Resolution("source", S)
    ELSE Resolution("target", T)

LastWriteWins(S, T) ==
    IF S.updated_at >= T.updated_at
    THEN Resolution("source", S)
    ELSE Resolution("target", T)

FirstWriteWins_strict(S, T) ==
    IF S.created_at < T.created_at
    THEN Resolution("source", S)
    ELSE Resolution("target", T)

FirstWriteWins(S, T) ==
    IF S.created_at <= T.created_at
    THEN Resolution("source", S)
    ELSE Resolution("target", T)

\* {**target_entry.data, **source_entry.data}
MergeData_targetWins(S, T) ==
    [k \in Keys |-> IF T.data[k] # Absent THEN T.data[k] ELSE S.data[k]]

MergeData(S, T) ==
    [k \in Keys |-> IF S.data[k] # Absent THEN S.data[k] ELSE T.data[k]]

\* {**target_entry.synced_at, **source_entry.synced_at}
MergeSyncedAt(S, T) ==
    [p \in Platform |-> IF S.synced_at[p] # NoTime THEN S.synced_at[p]
                                                   ELSE T.synced_at[p]]

MergeVersion_noBump(S, T) == Max(S.version, T.version)

MergeVersion(S, T) == Max(S.version, T.version) + 1

Merge(S, T, now) ==
    LET merged == StateEntry(S.id, S.type, MergeData(S, T), NoHash,
                             Min(S.created_at, T.created_at), now,
                             MergeSyncedAt(S, T), MergeVersion(S, T))
    IN  Resolution("merged", [merged EXCEPT !.sha_hash = compute_hash(merged)])

Manual_keepSource(S, T) == Resolution("source", S)

Manual(S, T) == Resolution("none", NoEntry)

resolve_conflict(policy, S, T, now) ==
    IF policy = LAST_WRITE_WINS THEN LastWriteWins(S, T)
    ELSE IF policy = FIRST_WRITE_WINS THEN FirstWriteWins(S, T)
    ELSE IF policy = MERGE THEN Merge(S, T, now)
    ELSE Manual(S, T)

----------------------------------------------------------------------------
(* StateSyncManager._put_with_retry.  outs[k] is the outcome of the k-th    *)
(* adapter.put call if it is made.  The result carries what was returned    *)
(* ("true", "false", or "IndexError" when retry_backoff[attempt] is out of   *)
(* range), the number of adapter.put calls made and the sleeps taken.       *)

PutOutcomes == {"true", "false", "raise"}

PutResult(ret, calls, slept) == [ret |-> ret, calls |-> calls, slept |-> slept]

NoPut == PutResult("none", 0, <<>>)

RECURSIVE PutLoop_abortOnRaise(_, _, _, _, _, _)
PutLoop_abortOnRaise(N, backoff, outs, attempt, calls, slept) ==
    IF attempt >= N THEN PutResult("false", calls, slept)
    ELSE IF outs[attempt + 1] = "true" THEN PutResult("true", calls + 1, slept)
    ELSE IF outs[attempt + 1] = "raise" THEN PutResult("false", calls + 1, slept)
    ELSE IF attempt < N - 1
         THEN IF attempt + 1 > Len(backoff)
              THEN PutResult("IndexError", calls + 1, slept)
              ELSE PutLoop_abortOnRaise(N, backoff, outs, attempt + 1, calls + 1,
                                        Append(slept, backoff[attempt + 1]))
         ELSE PutLoop_abortOnRaise(N, backoff, outs, attempt + 1, calls + 1, slept)

put_with_retry_abortOnRaise(N, backoff, outs) ==
    PutLoop_abortOnRaise(N, backoff, outs, 0, 0, <<>>)

put_with_retry_firstOnly(N, backoff, outs) ==
    IF outs[1] = "true" THEN PutResult("true", 1, <<>>)
                        ELSE PutResult("false", 1, <<>>)

\* for attempt in range(N): one adapter.put, then the sleep
RECURSIVE PutLoop(_, _, _, _, _, _)
PutLoop(N, backoff, outs, attempt, calls, slept) ==
    IF attempt >= N THEN PutResult("false", calls, slept)
    ELSE IF outs[attempt + 1] = "true" THEN PutResult("true", calls + 1, slept)
    ELSE IF attempt < N - 1
         THEN IF attempt + 1 > Len(backoff)
              THEN PutResult("IndexError", calls + 1, slept)
              ELSE PutLoop(N, backoff, outs, attempt + 1, calls + 1,
                           Append(slept, backoff[attempt + 1]))
         ELSE PutLoop(N, backoff, outs, attempt + 1, calls + 1, slept)

put_with_retry(N, backoff, outs) == PutLoop(N, backoff, outs, 0, 0, <<>>)

AdapterPut_toSource(st, t, e, r) ==
    IF r.ret = "true" THEN [st EXCEPT ![source][e.id] = e] ELSE st

\* The adapter is a value store: a put that returns true has stored a copy
\* of the entry under its id, a put that returns false or raises has not.
AdapterPut(st, t, e, r) ==
    IF r.ret = "true" THEN [st EXCEPT ![t][e.id] = e] ELSE st

EmptyStore == [p \in Platform |-> [i \in Ids |-> NoEntry]]

\* The entry create_entry builds: version 1, hash computed, synced_at empty.
NewEntry(id, type, data, now) ==
    LET e == StateEntry(id, type, data, NoHash, now, now, NoSynced, 1)
    IN  [e EXCEPT !.sha_hash = compute_hash(e)]

----------------------------------------------------------------------------
(* Values of the variables an operation does not use *)

NoResolution == Resolution("unset", NoEntry)

SyncIdle ==
    /\ source = "local" /\ targets = <<>> /\ force = FALSE
    /\ source_entries = <<>> /\ ti = 0 /\ ei = 0
    /\ synced = 0 /\ failed = 0 /\ conflicts = <<>> /\ results = <<>>
    /\ start_time = 0 /\ handled = <<>> /\ runs = 0

RetryIdle == put_outs = <<>> /\ put_result = NoPut

ResolveIdle ==
    /\ arg_source = NoEntry /\ arg_target = NoEntry
    /\ resolved = NoResolution /\ resolved_rev = NoResolution

DefaultConfig ==
    /\ retry_attempts = DefaultRetryAttempts
    /\ retry_backoff = DefaultRetryBackoff

\* sync_to=None
NoList == <<"none">>

CreateIdle ==
    /\ primary = "salesforce" /\ sync_to = NoList /\ ci = 0
    /\ created = NoEntry /\ put_log = <<>>

HealthIdle ==
    /\ probes = [p \in Platform |-> "true"]
    /\ health = [p \in Platform |-> "unset"]
    /\ hi = 0

\* the result of verify_chain_integrity; called is false before any call
VerifyResult(valid, errors, called) ==
    [valid |-> valid, errors |-> errors, called |-> called]

NoVerify == VerifyResult(TRUE, <<>>, FALSE)

\* no operation called yet, nothing returned
NoOut == [nothing |-> TRUE]

ChainIdle ==
    /\ chain = <<>> /\ hash_index = <<>> /\ depth_map = <<>>
    /\ verify_result = NoVerify
    /\ op = "none" /\ out = NoOut

\* class CardStatus
CardStatus ==
    {"backlog", "qualified", "in_progress", "review", "staging", "deployed"}

\* the columns of a board without cards
EmptyColumns == [s \in CardStatus |-> <<>>]

\* a KanbanBoard call: its name, card id and status arguments, and whether
\* it returned a card ("returned"), returned None ("none") or raised
BoardOp(name, card_id, status, ended) ==
    [name |-> name, card_id |-> card_id, status |-> status, ended |-> ended]

NoBoardOp == BoardOp("none", 0, "backlog", "none")

BoardIdle ==
    /\ cards = <<>> /\ columns = EmptyColumns
    /\ moved_log = <<>> /\ bop = NoBoardOp

ExtIdle == CreateIdle /\ HealthIdle /\ ChainIdle /\ BoardIdle

----------------------------------------------------------------------------
(* SpecRetry: _put_with_retry(adapter, entry) for every configuration and   *)
(* every sequence of adapter.put outcomes.                                  *)

RetryPlatform == "cloudflare"
RetryEntry == NewEntry("CARD-001", "kanban_card", [NoData EXCEPT !["title"] = 1], 0)

\* a backoff list of L values: 2, 4, 8, 16, ...
Backoff(L) == [i \in 1..L |-> 2 ^ i]

InitRetry ==
    /\ store = EmptyStore
    /\ clock = 0
    /\ pc = "retry"
    /\ conflict_resolution = LAST_WRITE_WINS
    /\ retry_attempts \in 1..MaxAttempts
    /\ retry_backoff \in {Backoff(L) : L \in 0..MaxAttempts}
    /\ put_outs \in [1..retry_attempts -> PutOutcomes]
    /\ put_result = NoPut
    /\ SyncIdle
    /\ ResolveIdle
    /\ ExtIdle

RetryCall ==
    /\ pc = "retry"
    /\ LET r == put_with_retry(retry_attempts, retry_backoff, put_outs)
       IN  /\ put_result' = r
           /\ store' = AdapterPut(store, RetryPlatform, RetryEntry, r)
    /\ pc' = "retry_done"
    /\ UNCHANGED <<clock, conflict_resolution, retry_attempts, retry_backoff,
                   put_outs, arg_source, arg_target, resolved, resolved_rev>>
    /\ UNCHANGED syncVars
    /\ UNCHANGED extVars

NextRetry == RetryCall

SpecRetry == InitRetry /\ [][NextRetry]_vars

----------------------------------------------------------------------------
(* SpecResolve: _resolve_conflict(source_entry, target_entry) on drawn      *)
(* pairs, under each policy, called both ways round.                        *)

SourceData == {[NoData EXCEPT !["title"] = 1],
               [title |-> 1, status |-> 1],
               NoData}
TargetData == {[NoData EXCEPT !["title"] = 2],
               [NoData EXCEPT !["status"] = 2],
               [NoData EXCEPT !["title"] = 1]}

Stamps == {<<c, u>> \in (0..MaxTime) \X (0..MaxTime) : c <= u}

WithHash(e) == [e EXCEPT !.sha_hash = compute_hash(e)]

SourcePool ==
    {WithHash(StateEntry("CARD-001", "kanban_card", d, NoHash, s[1], s[2], sy, v)) :
        d \in SourceData, s \in Stamps, v \in 1..MaxVersion,
        sy \in {NoSynced, [NoSynced EXCEPT !["local"] = 0]}}

TargetPool ==
    {WithHash(StateEntry(it[1], it[2], d, NoHash, s[1], s[2], sy, v)) :
        it \in {<<"CARD-001", "kanban_card">>, <<"CARD-002", "pr">>},
        d \in TargetData, s \in Stamps, v \in 1..MaxVersion,
        sy \in {NoSynced, [NoSynced EXCEPT !["cloudflare"] = 1]}}

InitResolve ==
    /\ store = EmptyStore
    /\ clock = MaxTime
    /\ pc = "resolve"
    /\ conflict_resolution = LAST_WRITE_WINS
    /\ DefaultConfig
    /\ RetryIdle
    /\ SyncIdle
    /\ arg_source \in SourcePool
    /\ arg_target \in TargetPool
    /\ resolved = NoResolution
    /\ resolved_rev = NoResolution
    /\ ExtIdle

ResolveCall(policy) ==
    /\ pc = "resolve"
    /\ conflict_resolution' = policy
    /\ resolved' = resolve_conflict(policy, arg_source, arg_target, clock)
    /\ resolved_rev' = resolve_conflict(policy, arg_target, arg_source, clock)
    /\ pc' = "resolve_done"
    /\ UNCHANGED <<store, clock, retry_attempts, retry_backoff, put_outs,
                   put_result, arg_source, arg_target>>
    /\ UNCHANGED syncVars
    /\ UNCHANGED extVars

NextResolve == \E policy \in ConflictResolution : ResolveCall(policy)

SpecResolve == InitResolve /\ [][NextResolve]_vars

----------------------------------------------------------------------------
(* StateSyncManager.sync                                                    *)

GetOutcomes == {"ok", "raise"}
ListOutcomes == {"ok", "raise"}

SyncResult(success, src, tgt, entries_synced, entries_failed, cs, duration_ms, timestamp) ==
    [success |-> success, source |-> src, target |-> tgt,
     entries_synced |-> entries_synced, entries_failed |-> entries_failed,
     conflicts |-> cs, duration_ms |-> duration_ms, timestamp |-> timestamp]

Success_noConflicts(nfailed, cs) == nfailed = 0 /\ cs = <<>>

\* success=failed == 0
Success(nfailed, cs) == nfailed = 0

Conflict(entry, target_entry) ==
    [entry_id |-> entry.id, source_hash |-> entry.sha_hash,
     target_hash |-> target_entry.sha_hash]

NeedsResolve_always(frc, entry, target_entry) == TRUE

\* elif force or entry.sha_hash != target_entry.sha_hash
NeedsResolve(frc, entry, target_entry) ==
    frc \/ entry.sha_hash # target_entry.sha_hash

Step_failedTwice(entry_after, store_after, ds, df, dc, found, target_entry, which, put_called, env_ok) ==
    [entry_after |-> entry_after, store_after |-> store_after,
     dsynced |-> ds, dfailed |-> 2 * df, dconflicts |-> dc,
     found |-> found, target_entry |-> target_entry, which |-> which,
     put_called |-> put_called, env_ok |-> env_ok]

\* What one pass of the loop body does with one source entry: the source
\* entry object afterwards, the store afterwards, the counters' increments,
\* the conflicts added, and a record of what happened.
Step(entry_after, store_after, ds, df, dc, found, target_entry, which, put_called, env_ok) ==
    [entry_after |-> entry_after, store_after |-> store_after,
     dsynced |-> ds, dfailed |-> df, dconflicts |-> dc,
     found |-> found, target_entry |-> target_entry, which |-> which,
     put_called |-> put_called, env_ok |-> env_ok]

EnvOk(N, outs) == \E k \in 1..N : outs[k] = "true"

\* The outcome sequences of N adapter.put calls, up to what is never read:
\* some calls that return false or raise, then calls that return true (no
\* put is called after the first that returns true).
PutScripts(N) ==
    {[k \in 1..N |-> IF k <= Len(fails) THEN fails[k] ELSE "true"] :
        fails \in UNION {[1..n -> PutOutcomes \ {"true"}] : n \in 0..N}}

\* the get outcome and the put outcomes met while one entry is processed
EntryInputs(N) ==
    {io \in GetOutcomes \X PutScripts(N) :
        io[1] = "raise" => io[2] = [k \in 1..N |-> "true"]}

\* if success: synced += 1
Counted(r) == IF r.ret = "true" THEN 1 ELSE 0

\* target_entry is None: mark synced_at, put with retry, count
CreateStep(st, t, entry, N, backoff, now, outs) ==
    LET e1 == [entry EXCEPT !.synced_at[t] = now]
        r == put_with_retry(N, backoff, outs)
    IN  Step(e1, AdapterPut(st, t, e1, r), Counted(r), 1 - Counted(r), <<>>,
             "absent", NoEntry, "na", r.calls > 0, EnvOk(N, outs))

\* the entry differs or force: resolve, then put the resolution or record
\* the conflict
ResolveStep(st, t, entry, target_entry, policy, N, backoff, now, outs) ==
    LET res == resolve_conflict(policy, entry, target_entry, now)
    IN  IF res.which # "none"
        THEN LET r1 == [res.entry EXCEPT !.synced_at[t] = now]
                 r == put_with_retry(N, backoff, outs)
             IN  Step(IF res.which = "source" THEN r1 ELSE entry,
                      AdapterPut(st, t, r1, r), Counted(r), 1 - Counted(r), <<>>,
                      "present", target_entry, res.which, r.calls > 0,
                      EnvOk(N, outs))
        ELSE Step(entry, st, 0, 0, <<Conflict(entry, target_entry)>>,
                  "present", target_entry, "none", FALSE, FALSE)

EntryStep_getUncounted(st, t, entry, frc, policy, N, backoff, now, g, outs) ==
    LET target_entry == st[t][entry.id]
    IN  IF g = "raise"
        THEN Step(entry, st, 0, 0, <<>>, "error", NoEntry, "na", FALSE, FALSE)
        ELSE IF target_entry = NoEntry
        THEN CreateStep(st, t, entry, N, backoff, now, outs)
        ELSE IF NeedsResolve(frc, entry, target_entry)
        THEN ResolveStep(st, t, entry, target_entry, policy, N, backoff, now, outs)
        ELSE Step(entry, st, 0, 0, <<>>, "present", target_entry, "skip", FALSE, FALSE)

\* try: get, then create, resolve or skip; except Exception: failed += 1
EntryStep(st, t, entry, frc, policy, N, backoff, now, g, outs) ==
    LET target_entry == st[t][entry.id]
    IN  IF g = "raise"
        THEN Step(entry, st, 0, 1, <<>>, "error", NoEntry, "na", FALSE, FALSE)
        ELSE IF target_entry = NoEntry
        THEN CreateStep(st, t, entry, N, backoff, now, outs)
        ELSE IF NeedsResolve(frc, entry, target_entry)
        THEN ResolveStep(st, t, entry, target_entry, policy, N, backoff, now, outs)
        ELSE Step(entry, st, 0, 0, <<>>, "present", target_entry, "skip", FALSE, FALSE)

Handled(entry, stp, outs) ==
    [id |-> entry.id, source_hash |-> entry.sha_hash, found |-> stp.found,
     source_valid |-> validate_hash(entry),
     target_valid |-> validate_hash(stp.target_entry),
     all_raised |-> stp.put_called /\ \A k \in DOMAIN outs : outs[k] = "raise",
     target_hash |-> stp.target_entry.sha_hash, which |-> stp.which,
     put_called |-> stp.put_called, env_ok |-> stp.env_ok,
     dsynced |-> stp.dsynced, dfailed |-> stp.dfailed,
     dconflicts |-> stp.dconflicts,
     source_kept |-> stp.store_after[source] = store[source],
     target_kept |-> stp.store_after[targets[ti]] = store[targets[ti]],
     target_has |-> stp.store_after[targets[ti]][entry.id].sha_hash]

\* What list_entries returns for an adapter holding `held`: the held
\* entries, here in the order of their ids.
RECURSIVE Listing(_, _)
Listing(held, ids) ==
    IF ids = {} THEN <<>>
    ELSE LET i == CHOOSE x \in ids : \A y \in ids : IdRank(x) <= IdRank(y)
         IN  (IF held[i] # NoEntry THEN <<held[i]>> ELSE <<>>)
                 \o Listing(held, ids \ {i})

\* source_entries = await source_adapter.list_entries(entry_type)
ListEntries(outcome) ==
    /\ pc = "list"
    /\ IF outcome = "ok"
       THEN /\ source_entries' = Listing(store[source], Ids)
            /\ pc' = "target"
       ELSE /\ pc' = "raised"
            /\ UNCHANGED source_entries
    /\ ti' = 1
    /\ UNCHANGED <<store, clock, conflict_resolution, retry_attempts, retry_backoff,
                   source, targets, force, ei, synced, failed, conflicts, results,
                   start_time, handled, runs, put_outs, put_result,
                   arg_source, arg_target, resolved, resolved_rev>>
    /\ UNCHANGED extVars

\* for target in targets: if target == source: continue
TargetSkip ==
    /\ pc = "target"
    /\ ti <= Len(targets)
    /\ targets[ti] = source
    /\ ti' = ti + 1
    /\ UNCHANGED <<store, clock, pc, conflict_resolution, retry_attempts,
                   retry_backoff, source, targets, force, source_entries, ei,
                   synced, failed, conflicts, results, start_time, handled, runs,
                   put_outs, put_result, arg_source, arg_target, resolved,
                   resolved_rev>>
    /\ UNCHANGED extVars

\* synced = 0; failed = 0; conflicts = []
TargetBegin ==
    /\ pc = "target"
    /\ ti <= Len(targets)
    /\ targets[ti] # source
    /\ synced' = 0 /\ failed' = 0 /\ conflicts' = <<>>
    /\ ei' = 1
    /\ handled' = <<>>
    /\ pc' = "entry"
    /\ UNCHANGED <<store, clock, conflict_resolution, retry_attempts,
                   retry_backoff, source, targets, force, source_entries, ti,
                   results, start_time, runs, put_outs, put_result, arg_source,
                   arg_target, resolved, resolved_rev>>
    /\ UNCHANGED extVars

\* the body of "for entry in source_entries", with its try/except
SyncEntry(g, outs) ==
    /\ pc = "entry"
    /\ ei <= Len(source_entries)
    /\ \E stp \in {EntryStep(store, targets[ti], source_entries[ei], force,
                             conflict_resolution, retry_attempts, retry_backoff,
                             clock, g, outs)} :
           /\ store' = stp.store_after
           /\ source_entries' = [source_entries EXCEPT ![ei] = stp.entry_after]
           /\ synced' = synced + stp.dsynced
           /\ failed' = failed + stp.dfailed
           /\ conflicts' = conflicts \o stp.dconflicts
           /\ handled' = Append(handled, Handled(source_entries[ei], stp, outs))
    /\ ei' = ei + 1
    /\ UNCHANGED <<clock, pc, conflict_resolution, retry_attempts, retry_backoff,
                   source, targets, force, ti, results, start_time, runs,
                   put_outs, put_result, arg_source, arg_target, resolved,
                   resolved_rev>>
    /\ UNCHANGED extVars

\* results.append(SyncResult(...))
TargetEnd ==
    /\ pc = "entry"
    /\ ei > Len(source_entries)
    /\ results' = Append(results,
           SyncResult(Success(failed, conflicts), source, targets[ti], synced,
                      failed, conflicts, (clock - start_time) * 1000, clock))
    /\ ti' = ti + 1
    /\ pc' = "target"
    /\ UNCHANGED <<store, clock, conflict_resolution, retry_attempts,
                   retry_backoff, source, targets, force, source_entries, ei,
                   synced, failed, conflicts, start_time, handled, runs,
                   put_outs, put_result, arg_source, arg_target, resolved,
                   resolved_rev>>
    /\ UNCHANGED extVars

\* return results
SyncReturn ==
    /\ pc = "target"
    /\ ti > Len(targets)
    /\ pc' = "done"
    /\ UNCHANGED <<store, clock, conflict_resolution, retry_attempts,
                   retry_backoff, put_outs, put_result, arg_source, arg_target,
                   resolved, resolved_rev>>
    /\ UNCHANGED syncVars
    /\ UNCHANGED extVars

Returned == pc \in {"idle", "done", "raised"}

\* manager = StateSyncManager(conflict_resolution=policy);
\* manager.sync(src, tgts, force=frc): results = []; start_time = time.time()
SyncCall(src, tgts, frc, policy) ==
    /\ Returned
    /\ runs < MaxRuns
    /\ runs' = runs + 1
    /\ conflict_resolution' = policy
    /\ source' = src /\ targets' = tgts /\ force' = frc
    /\ results' = <<>>
    /\ start_time' = clock
    /\ source_entries' = <<>> /\ ti' = 0 /\ ei' = 0
    /\ synced' = 0 /\ failed' = 0 /\ conflicts' = <<>> /\ handled' = <<>>
    /\ pc' = "list"
    /\ UNCHANGED <<store, clock, retry_attempts, retry_backoff, put_outs,
                   put_result, arg_source, arg_target, resolved, resolved_rev>>
    /\ UNCHANGED extVars

\* time passes between two sync runs
Tick ==
    /\ Returned
    /\ clock < MaxClock
    /\ clock' = clock + 1
    /\ UNCHANGED <<store, pc, conflict_resolution, retry_attempts, retry_backoff,
                   put_outs, put_result, arg_source, arg_target, resolved,
                   resolved_rev>>
    /\ UNCHANGED syncVars
    /\ UNCHANGED extVars

SyncSteps ==
    \/ \E outcome \in ListOutcomes : ListEntries(outcome)
    \/ TargetSkip
    \/ TargetBegin
    \/ \E io \in EntryInputs(retry_attempts) : SyncEntry(io[1], io[2])
    \/ TargetEnd
    \/ SyncReturn

----------------------------------------------------------------------------
(* Spec: one sync run from "local", over stores filled by earlier           *)
(* create_entry calls (version 1, hash computed).                           *)

TitleOnly == [NoData EXCEPT !["title"] = 1]
TitleStatus == [title |-> 2, status |-> 1]
StatusOnly == [NoData EXCEPT !["status"] = 2]

\* an entry whose stored data was changed without its sha_hash
Tampered(e, data) == [e EXCEPT !.data = data]

Card1(data, now) == NewEntry("CARD-001", "kanban_card", data, now)
Card2(data, now) == NewEntry("CARD-002", "pr", data, now)

\* CARD-001 is held by local and cloudflare in every relation of hash and
\* timestamps, on either side possibly with a sha_hash that is not the hash
\* of its content; CARD-002 by local alone or by both with different data;
\* github and salesforce start empty.
InitStores ==
    {[local |-> [i \in Ids |-> IF i = "CARD-001" THEN a ELSE bd[1]],
      cloudflare |-> [i \in Ids |-> IF i = "CARD-001" THEN c ELSE bd[2]],
      github |-> [i \in Ids |-> NoEntry],
      salesforce |-> [i \in Ids |-> NoEntry]] :
        a \in {NoEntry, Card1(TitleOnly, 0), Card1(TitleOnly, 1),
               Tampered(Card1(TitleOnly, 0), TitleStatus)},
        c \in {NoEntry, Card1(TitleOnly, 0), Card1(TitleOnly, 1),
               Card1(TitleStatus, 0), Card1(TitleStatus, 1),
               Tampered(Card1(TitleStatus, 0), TitleOnly)},
        bd \in {<<NoEntry, NoEntry>>,
                <<Card2(StatusOnly, 0), NoEntry>>,
                <<Card2(StatusOnly, 0), Card2(TitleOnly, 0)>>}}

\* the target lists of up to two platforms: none, one, the source before or
\* after a target, a target twice, two targets
TargetLists ==
    {<<>>, <<"local">>, <<"cloudflare">>, <<"github">>,
     <<"local", "cloudflare">>, <<"cloudflare", "local">>,
     <<"cloudflare", "cloudflare">>, <<"cloudflare", "github">>,
     <<"github", "cloudflare">>}

Init ==
    /\ store \in InitStores
    /\ clock = 1
    /\ pc = "list"
    /\ conflict_resolution \in ConflictResolution
    /\ DefaultConfig
    /\ source = "local"
    /\ targets \in TargetLists
    /\ force \in BOOLEAN
    /\ source_entries = <<>> /\ ti = 0 /\ ei = 0
    /\ synced = 0 /\ failed = 0 /\ conflicts = <<>> /\ results = <<>>
    /\ start_time = 1 /\ handled = <<>> /\ runs = 1
    /\ RetryIdle
    /\ ResolveIdle
    /\ ExtIdle

Next == SyncSteps

Spec == Init /\ [][Next]_vars

----------------------------------------------------------------------------
(* SpecRuns: up to MaxRuns sync runs in a row, each by a manager built with *)
(* its own policy, between local and cloudflare, over CARD-001.             *)

\* What create_entry with primary cloudflare and sync_to = [local] leaves at
\* time 0: cloudflare holds the entry as it was put first, with no key in
\* synced_at, local the entry as it was put next, with the primary's key.
PropagatedStore ==
    [EmptyStore EXCEPT
        !["cloudflare"]["CARD-001"] = Card1(TitleOnly, 0),
        !["local"]["CARD-001"] =
            [Card1(TitleOnly, 0) EXCEPT !.synced_at["cloudflare"] = 0]]

RunStores ==
    {[local |-> [i \in Ids |-> IF i = "CARD-001" THEN a ELSE NoEntry],
      cloudflare |-> [i \in Ids |-> IF i = "CARD-001" THEN c ELSE NoEntry],
      github |-> [i \in Ids |-> NoEntry],
      salesforce |-> [i \in Ids |-> NoEntry]] :
        a \in {NoEntry, Card1(TitleOnly, 0), Card1(TitleOnly, 1)},
        c \in {NoEntry, Card1(TitleOnly, 0), Card1(TitleStatus, 0),
               Card1(TitleStatus, 1)}}
    \cup {PropagatedStore}

RunSources == {"local", "cloudflare"}
RunTargetLists == {<<p>> : p \in RunSources}

InitRuns ==
    /\ store \in RunStores
    /\ clock = 1
    /\ pc = "idle"
    /\ conflict_resolution = LAST_WRITE_WINS
    /\ DefaultConfig
    /\ SyncIdle
    /\ RetryIdle
    /\ ResolveIdle
    /\ ExtIdle

NextRuns ==
    \/ \E src \in RunSources, tgts \in RunTargetLists, frc \in BOOLEAN,
          policy \in ConflictResolution : SyncCall(src, tgts, frc, policy)
    \/ Tick
    \/ SyncSteps

SpecRuns == InitRuns /\ [][NextRuns]_vars

----------------------------------------------------------------------------
(* StateSyncManager.create_entry, one step per put it issues.               *)
(* SpecCreate: one create_entry call by a manager with any primary, for     *)
(* sync_to = None and for given lists, on every outcome of every put.       *)

\* the members of the Platform enum in the order of their definition
PlatformOrder == <<"github", "salesforce", "cloudflare", "local">>

RECURSIVE Without(_, _)
Without(seq, x) ==
    IF seq = <<>> THEN <<>>
    ELSE (IF Head(seq) = x THEN <<>> ELSE <<Head(seq)>>) \o Without(Tail(seq), x)

\* sync_to = [p for p in Platform if p != self.primary]
DefaultSyncTo(prim) == Without(PlatformOrder, prim)

PutRecord(platform, r, retried) ==
    [platform |-> platform, ret |-> r.ret, calls |-> r.calls, retried |-> retried]

CreateNext_stopOnFailure(r) == IF r.ret = "true" THEN "create_put" ELSE "created"

\* for platform in sync_to: the loop goes on whatever _put_with_retry
\* returned, and ends with the exception _put_with_retry raised
CreateNext(r) == IF r.ret = "IndexError" THEN "create_raised" ELSE "create_put"

\* entry = StateEntry(...); await primary_adapter.put(entry);
\* entry.synced_at[self.primary.value] = now; sync_to defaulted
CreateCall(entry_id, entry_type, data, o) ==
    /\ pc = "create"
    /\ LET entry == NewEntry(entry_id, entry_type, data, clock)
           r == PutResult(o, 1, <<>>)
       IN  /\ store' = AdapterPut(store, primary, entry, r)
           /\ put_log' = <<PutRecord(primary, r, FALSE)>>
           /\ IF o = "raise"
              THEN /\ pc' = "create_raised"
                   /\ UNCHANGED <<created, sync_to>>
              ELSE /\ pc' = "create_put"
                   /\ created' = [entry EXCEPT !.synced_at[primary] = clock]
                   /\ sync_to' = IF sync_to = NoList THEN DefaultSyncTo(primary)
                                                     ELSE sync_to
    /\ ci' = 1
    /\ UNCHANGED <<clock, conflict_resolution, retry_attempts, retry_backoff,
                   put_outs, put_result, arg_source, arg_target, resolved,
                   resolved_rev, primary>>
    /\ UNCHANGED <<syncVars, healthVars, chainVars, boardVars>>

\* success = await self._put_with_retry(adapter, entry);
\* if success: entry.synced_at[platform.value] = time.time()
CreatePut(outs) ==
    /\ pc = "create_put"
    /\ ci <= Len(sync_to)
    /\ \E r \in {put_with_retry(retry_attempts, retry_backoff, outs)} :
           /\ store' = AdapterPut(store, sync_to[ci], created, r)
           /\ put_log' = Append(put_log, PutRecord(sync_to[ci], r, TRUE))
           /\ created' = IF r.ret = "true"
                         THEN [created EXCEPT !.synced_at[sync_to[ci]] = clock]
                         ELSE created
           /\ pc' = CreateNext(r)
    /\ ci' = ci + 1
    /\ UNCHANGED <<clock, conflict_resolution, retry_attempts, retry_backoff,
                   put_outs, put_result, arg_source, arg_target, resolved,
                   resolved_rev, primary, sync_to>>
    /\ UNCHANGED <<syncVars, healthVars, chainVars, boardVars>>

\* return entry
CreateReturn ==
    /\ pc = "create_put"
    /\ ci > Len(sync_to)
    /\ pc' = "created"
    /\ UNCHANGED <<store, clock, conflict_resolution, retry_attempts,
                   retry_backoff, put_outs, put_result, arg_source, arg_target,
                   resolved, resolved_rev>>
    /\ UNCHANGED <<syncVars, createVars, healthVars, chainVars, boardVars>>

SyncToLists ==
    {NoList, <<>>, <<"local">>, <<"cloudflare", "local">>,
     <<"local", "local">>, <<"salesforce", "github">>}

InitCreate ==
    /\ store = EmptyStore
    /\ clock = 1
    /\ pc = "create"
    /\ conflict_resolution = LAST_WRITE_WINS
    /\ DefaultConfig
    /\ primary \in Platform
    /\ sync_to \in SyncToLists
    /\ ci = 0 /\ created = NoEntry /\ put_log = <<>>
    /\ SyncIdle
    /\ RetryIdle
    /\ ResolveIdle
    /\ HealthIdle
    /\ ChainIdle
    /\ BoardIdle

NextCreate ==
    \/ \E data \in {TitleOnly, TitleStatus}, o \in PutOutcomes :
           CreateCall("CARD-001", "kanban_card", data, o)
    \/ \E outs \in PutScripts(retry_attempts) : CreatePut(outs)
    \/ CreateReturn

SpecCreate == InitCreate /\ [][NextCreate]_vars

----------------------------------------------------------------------------
(* StateSyncManager.health_check_all, one step per adapter.                 *)
(* SpecHealth: one call, each adapter's health_check returning True or      *)
(* False or raising.                                                        *)

ProbeOutcomes == {"true", "false", "raise"}

\* the keys of self.adapters in the order __init__ inserts them
AdapterOrder == <<"salesforce", "cloudflare", "github", "local">>

Probe_raiseAborts(o) == IF o = "raise" THEN "unset" ELSE o

\* try: results[platform] = await adapter.health_check()
\* except Exception: results[platform] = False
Probe(o) == IF o = "raise" THEN "false" ELSE o

HealthProbe ==
    /\ pc = "health"
    /\ hi <= Len(AdapterOrder)
    /\ health' = [health EXCEPT ![AdapterOrder[hi]] = Probe(probes[AdapterOrder[hi]])]
    /\ hi' = hi + 1
    /\ UNCHANGED <<store, clock, pc, conflict_resolution, retry_attempts,
                   retry_backoff, put_outs, put_result, arg_source, arg_target,
                   resolved, resolved_rev, probes>>
    /\ UNCHANGED <<syncVars, createVars, chainVars, boardVars>>

\* return results
HealthReturn ==
    /\ pc = "health"
    /\ hi > Len(AdapterOrder)
    /\ pc' = "health_done"
    /\ UNCHANGED <<store, clock, conflict_resolution, retry_attempts,
                   retry_backoff, put_outs, put_result, arg_source, arg_target,
                   resolved, resolved_rev>>
    /\ UNCHANGED <<syncVars, createVars, healthVars, chainVars, boardVars>>

InitHealth ==
    /\ store = EmptyStore
    /\ clock = 0
    /\ pc = "health"
    /\ conflict_resolution = LAST_WRITE_WINS
    /\ DefaultConfig
    /\ probes \in [Platform -> ProbeOutcomes]
    /\ health = [p \in Platform |-> "unset"]
    /\ hi = 1
    /\ SyncIdle
    /\ RetryIdle
    /\ ResolveIdle
    /\ CreateIdle
    /\ ChainIdle
    /\ BoardIdle

NextHealth == HealthProbe \/ HealthReturn

SpecHealth == InitHealth /\ [][NextHealth]_vars

----------------------------------------------------------------------------
(* SHAInfinity (src/src/hashing/sha_infinity.py).  A digest is identified   *)
(* with what it digests (no collisions).  A node object is its position in  *)
(* chain: hash_index and depth_map hold positions, so that a change of a    *)
(* node's children_hashes is seen through every reference to the node.      *)

\* sha256_hash of the data of a node, of the root seed, of the components of
\* a node joined with "::"
DataHash(data) == [data |-> data]
SeedHash(seed) == [seed |-> seed]
NodeHash(components) == [node |-> components]

RootSeed == "blackroad:kanban:v1"

\* self.root_hash = sha256_hash(self.root_seed)
root_hash == SeedHash(RootSeed)

\* parent_hash=None, the word "ROOT", a hash that no node ever had
None == [none |-> TRUE]
RootWord == [word |-> "ROOT"]
UnknownHash == [unknown |-> TRUE]

NoMeta == <<>>

HashNode(data_hash, depth, timestamp, parent_hash, children_hashes, metadata) ==
    [data_hash |-> data_hash, depth |-> depth, timestamp |-> timestamp,
     parent_hash |-> parent_hash, children_hashes |-> children_hashes,
     metadata |-> metadata]

\* "|".join(sorted(children_hashes)): the hashes with their multiplicities,
\* whatever their order
SortedJoin(hs) ==
    [h \in {hs[i] : i \in DOMAIN hs} |-> Cardinality({i \in DOMAIN hs : hs[i] = h})]

\* HashNode.infinity_hash
infinity_hash(n) ==
    NodeHash(<<n.data_hash, n.depth, n.timestamp,
               IF n.parent_hash = None THEN RootWord ELSE n.parent_hash,
               SortedJoin(n.children_hashes), n.metadata>>)

NewDepth_unknownDeeper(parent_hash, ch, index) ==
    IF parent_hash = None THEN 0
    ELSE IF parent_hash \in DOMAIN index THEN ch[index[parent_hash]].depth + 1
    ELSE 1

\* depth = 0 without a parent; else the parent node's depth + 1 if
\* hash_index.get(parent_hash) finds one, else 0
NewDepth(parent_hash, ch, index) ==
    IF parent_hash = None THEN 0
    ELSE IF parent_hash \in DOMAIN index THEN ch[index[parent_hash]].depth + 1
    ELSE 0

\* the error verify_chain_integrity appends for the node at position k
MissingParent(ch, k) ==
    [message |-> "Missing parent for node at depth", depth |-> ch[k].depth, node |-> k]

\* if node.depth > 0 and node.parent_hash not in self.hash_index:
\*     if node.parent_hash != self.root_hash: errors.append(...)
Reported(ch, index, k) ==
    /\ ch[k].depth > 0
    /\ ch[k].parent_hash \notin DOMAIN index
    /\ ch[k].parent_hash # root_hash

\* for node in self.chain: check the parent, then index the node under its
\* computed hash if that is not a key
RECURSIVE VerifyLoop(_, _, _, _)
VerifyLoop(ch, index, errors, k) ==
    IF k > Len(ch) THEN [index |-> index, errors |-> errors]
    ELSE LET errors1 == IF Reported(ch, index, k)
                        THEN Append(errors, MissingParent(ch, k))
                        ELSE errors
             computed == infinity_hash(ch[k])
             index1 == IF computed \in DOMAIN index THEN index
                       ELSE (computed :> k) @@ index
         IN  VerifyLoop(ch, index1, errors1, k + 1)

verify_chain_integrity(ch, index) == VerifyLoop(ch, index, <<>>, 1)

LinkChild_everyNode(ch, index, parent_hash, h) ==
    IF parent_hash \in DOMAIN index
    THEN [k \in DOMAIN ch |-> [ch[k] EXCEPT !.children_hashes = Append(@, h)]]
    ELSE ch

\* if parent_hash in self.hash_index:
\*     self.hash_index[parent_hash].children_hashes.append(node.infinity_hash)
LinkChild(ch, index, parent_hash, h) ==
    IF parent_hash \in DOMAIN index
    THEN [ch EXCEPT ![index[parent_hash]].children_hashes = Append(@, h)]
    ELSE ch

\* what add_node was called with and the position of the node it returned
AddOut(data, parent, pos) == [data |-> data, parent |-> parent, node |-> pos]

ChainAppend_atFront(ch, node) == <<node>> \o ch

\* self.chain.append(node)
ChainAppend(ch, node) == Append(ch, node)

DepthAppend_replace(dm, depth, pos) == (depth :> <<pos>>) @@ dm

\* if depth not in self.depth_map: self.depth_map[depth] = []
\* self.depth_map[depth].append(node)
DepthAppend(dm, depth, pos) ==
    IF depth \in DOMAIN dm
    THEN [dm EXCEPT ![depth] = Append(@, pos)]
    ELSE (depth :> <<pos>>) @@ dm

\* add_node(data, parent_hash, metadata)
AddNode(data, parent, dt) ==
    /\ pc = "chain"
    /\ Len(chain) < MaxChain
    /\ clock + dt <= MaxClock
    /\ LET parent_hash == IF parent = None THEN root_hash ELSE parent
           node == HashNode(DataHash(data), NewDepth(parent, chain, hash_index),
                            clock + dt, parent_hash, <<>>, NoMeta)
           pos == Len(chain) + 1
           chain1 == LinkChild(chain, hash_index, parent_hash, infinity_hash(node))
       IN  /\ chain' = ChainAppend(chain1, node)
           /\ hash_index' = (infinity_hash(node) :> pos) @@ hash_index
           /\ depth_map' = DepthAppend(depth_map, node.depth, pos)
    /\ clock' = clock + dt
    /\ verify_result' = NoVerify
    /\ op' = "add_node" /\ out' = AddOut(data, parent, Len(chain) + 1)
    /\ UNCHANGED <<store, pc, conflict_resolution, retry_attempts, retry_backoff,
                   put_outs, put_result, arg_source, arg_target, resolved,
                   resolved_rev>>
    /\ UNCHANGED <<syncVars, createVars, healthVars, boardVars>>

\* verify_chain_integrity()
VerifyChain ==
    /\ pc = "chain"
    /\ ~verify_result.called
    /\ \E r \in {verify_chain_integrity(chain, hash_index)} :
           /\ hash_index' = r.index
           /\ verify_result' = VerifyResult(r.errors = <<>>, r.errors, TRUE)
    /\ op' = "verify_chain_integrity" /\ out' = NoOut
    /\ UNCHANGED <<store, clock, pc, conflict_resolution, retry_attempts,
                   retry_backoff, put_outs, put_result, arg_source, arg_target,
                   resolved, resolved_rev, chain, depth_map>>
    /\ UNCHANGED <<syncVars, createVars, healthVars, boardVars>>

\* sha256_hash(leaf_hashes[i] + leaf_hashes[i + 1])
PairHash(x, y) == [pair |-> <<x, y>>]

\* sha256_hash(current + str(iteration))
Rehash(current, iteration) == [rehash |-> <<current, iteration>>]

Pad_first(level) ==
    IF Len(level) % 2 = 1 THEN Append(level, level[1]) ELSE level

\* if len(leaf_hashes) % 2 == 1: leaf_hashes.append(leaf_hashes[-1])
Pad(level) ==
    IF Len(level) % 2 = 1 THEN Append(level, level[Len(level)]) ELSE level

\* new_level: the hash of each consecutive pair
Pairs(level) ==
    [i \in 1..(Len(level) \div 2) |-> PairHash(level[2 * i - 1], level[2 * i])]

\* while len(leaf_hashes) > 1
RECURSIVE Reduce(_)
Reduce(level) == IF Len(level) <= 1 THEN level ELSE Reduce(Pairs(Pad(level)))

\* max(self.depth_map.keys())
MaxDepth(dm) == CHOOSE d \in DOMAIN dm : \A e \in DOMAIN dm : e <= d

\* [n.infinity_hash for n in self.depth_map[max_depth]]
LeafHashes(ch, dm) ==
    [i \in DOMAIN dm[MaxDepth(dm)] |-> infinity_hash(ch[dm[MaxDepth(dm)][i]])]

\* compute_merkle_root()
compute_merkle_root(ch, dm) ==
    IF ch = <<>> THEN root_hash
    ELSE LET top == Reduce(LeafHashes(ch, dm))
         IN  IF top # <<>> THEN top[1] ELSE root_hash

\* f"INF:{iteration}:{hash}", with the number of rehashes made
InfinityResult(iteration, hash, steps) ==
    [iteration |-> iteration, hash |-> hash, steps |-> steps]

\* while iteration < max_iterations: rehash, return on the pattern.  zeros
\* holds the iterations whose rehash starts with "0000".
RECURSIVE InfinityLoop(_, _, _, _)
InfinityLoop(current, iteration, max_iterations, zeros) ==
    IF iteration < max_iterations
    THEN IF iteration \in zeros
         THEN InfinityResult(iteration, Rehash(current, iteration), iteration + 1)
         ELSE InfinityLoop(Rehash(current, iteration), iteration + 1,
                           max_iterations, zeros)
    ELSE InfinityResult(iteration, current, iteration)

compute_infinity_hash_fromOne(ch, dm, max_iterations, zeros) ==
    InfinityLoop(compute_merkle_root(ch, dm), 1, max_iterations, zeros)

\* compute_infinity_hash(max_iterations)
compute_infinity_hash(ch, dm, max_iterations, zeros) ==
    InfinityLoop(compute_merkle_root(ch, dm), 0, max_iterations, zeros)

DefaultMaxIterations == 1000

\* compute_infinity_hash() as export_chain calls it: a function of the
\* Merkle root, left uninterpreted
DefaultInfinityHash(ch, dm) ==
    [infinity_of |-> <<compute_merkle_root(ch, dm), DefaultMaxIterations>>]

\* one element of "nodes" in the exported dict
ExportedNode(n) ==
    [data_hash |-> n.data_hash, infinity_hash |-> infinity_hash(n),
     depth |-> n.depth, timestamp |-> n.timestamp, parent_hash |-> n.parent_hash,
     children_count |-> Len(n.children_hashes), metadata |-> n.metadata]

\* export_chain()
export_chain(ch, dm, now) ==
    [version |-> "1.0", root_seed |-> RootSeed, root_hash |-> root_hash,
     merkle_root |-> compute_merkle_root(ch, dm),
     infinity_hash |-> DefaultInfinityHash(ch, dm),
     chain_length |-> Len(ch),
     max_depth |-> IF dm # <<>> THEN MaxDepth(dm) ELSE 0,
     nodes |-> [k \in DOMAIN ch |-> ExportedNode(ch[k])],
     exported_at |-> now]

\* a SHAInfinity object
Instance(seed, ch, index, dm) ==
    [root_seed |-> seed, root_hash |-> SeedHash(seed), chain |-> ch,
     hash_index |-> index, depth_map |-> dm]

ImportedNode_flat(d) ==
    HashNode(d.data_hash, 0, d.timestamp, d.parent_hash, <<>>, d.metadata)

\* HashNode(data_hash=..., depth=..., timestamp=..., parent_hash=...,
\*          metadata=...): children_hashes is left empty
ImportedNode(d) ==
    HashNode(d.data_hash, d.depth, d.timestamp, d.parent_hash, <<>>, d.metadata)

\* for node_data in data["nodes"]: append, index, add to depth_map
RECURSIVE ImportLoop(_, _, _)
ImportLoop(nodes, inst, k) ==
    IF k > Len(nodes) THEN inst
    ELSE LET node == ImportedNode(nodes[k])
         IN  ImportLoop(nodes,
                 [inst EXCEPT
                     !.chain = Append(@, node),
                     !.hash_index = (infinity_hash(node) :> k) @@ @,
                     !.depth_map = DepthAppend(@, node.depth, k)],
                 k + 1)

\* import_chain(data)
import_chain(data) ==
    ImportLoop(data.nodes, Instance(data.root_seed, <<>>, <<>>, <<>>), 1)

\* compute_merkle_root()
ComputeMerkleRoot ==
    /\ pc = "chain"
    /\ op # "compute_merkle_root"
    /\ op' = "compute_merkle_root"
    /\ out' = compute_merkle_root(chain, depth_map)
    /\ UNCHANGED <<store, clock, pc, conflict_resolution, retry_attempts,
                   retry_backoff, put_outs, put_result, arg_source, arg_target,
                   resolved, resolved_rev, chain, hash_index, depth_map,
                   verify_result>>
    /\ UNCHANGED <<syncVars, createVars, healthVars, boardVars>>

\* compute_infinity_hash(max_iterations)
ComputeInfinityHash(max_iterations, zeros) ==
    /\ pc = "chain"
    /\ Len(chain) <= MaxInfChain
    /\ op' = "compute_infinity_hash"
    /\ out' = [max_iterations |-> max_iterations, zeros |-> zeros,
               returned |-> compute_infinity_hash(chain, depth_map,
                                                  max_iterations, zeros)]
    /\ UNCHANGED <<store, clock, pc, conflict_resolution, retry_attempts,
                   retry_backoff, put_outs, put_result, arg_source, arg_target,
                   resolved, resolved_rev, chain, hash_index, depth_map,
                   verify_result>>
    /\ UNCHANGED <<syncVars, createVars, healthVars, boardVars>>

\* export_chain()
ExportChain ==
    /\ pc = "chain"
    /\ op # "export_chain"
    /\ op' = "export_chain"
    /\ out' = export_chain(chain, depth_map, clock)
    /\ UNCHANGED <<store, clock, pc, conflict_resolution, retry_attempts,
                   retry_backoff, put_outs, put_result, arg_source, arg_target,
                   resolved, resolved_rev, chain, hash_index, depth_map,
                   verify_result>>
    /\ UNCHANGED <<syncVars, createVars, healthVars, boardVars>>

\* SHAInfinity.import_chain(data) on the dict export_chain has just
\* returned: a new object, the exporting one stays as it is
ImportChain ==
    /\ pc = "chain"
    /\ op = "export_chain"
    /\ op' = "import_chain"
    /\ out' = [data |-> out, instance |-> import_chain(out)]
    /\ UNCHANGED <<store, clock, pc, conflict_resolution, retry_attempts,
                   retry_backoff, put_outs, put_result, arg_source, arg_target,
                   resolved, resolved_rev, chain, hash_index, depth_map,
                   verify_result>>
    /\ UNCHANGED <<syncVars, createVars, healthVars, boardVars>>

ChainData == {"a", "b"}

\* the parent hashes a caller can pass: none, the root hash, a hash no node
\* has, a key of hash_index, the hash a node has now
ParentChoices ==
    {None, root_hash, UnknownHash} \cup DOMAIN hash_index
        \cup {infinity_hash(chain[k]) : k \in DOMAIN chain}

InitChain ==
    /\ store = EmptyStore
    /\ clock = 0
    /\ pc = "chain"
    /\ conflict_resolution = LAST_WRITE_WINS
    /\ DefaultConfig
    /\ chain = <<>> /\ hash_index = <<>> /\ depth_map = <<>>
    /\ verify_result = NoVerify
    /\ op = "none" /\ out = NoOut
    /\ SyncIdle
    /\ RetryIdle
    /\ ResolveIdle
    /\ CreateIdle
    /\ HealthIdle
    /\ BoardIdle

NextChain ==
    \/ \E data \in ChainData, parent \in ParentChoices, dt \in {0, 1} :
           AddNode(data, parent, dt)
    \/ VerifyChain
    \/ ComputeMerkleRoot
    \/ \E max_iterations \in 0..MaxIter, zeros \in SUBSET (0..(MaxIter - 1)) :
           ComputeInfinityHash(max_iterations, zeros)
    \/ ExportChain
    \/ ImportChain

SpecChain == InitChain /\ [][NextChain]_vars

----------------------------------------------------------------------------
(* SpecValidate: one StateEntry (arg_source) whose fields are assigned and  *)
(* whose sha_hash is recomputed in any order; pc names the last step.       *)

HashedFields == {"id", "type", "data", "version"}
StampFields == {"created_at", "updated_at", "synced_at"}

ValidateData == {[NoData EXCEPT !["title"] = 1],
                 [NoData EXCEPT !["title"] = 2],
                 [title |-> 1, status |-> 1]}

\* the values an assignment to a field draws from
FieldValues(f) ==
    CASE f = "id" -> Ids
      [] f = "type" -> Types
      [] f = "data" -> ValidateData
      [] f = "version" -> 1..MaxVersion
      [] f = "created_at" -> {0, MaxTime}
      [] f = "updated_at" -> {0, MaxTime}
      [] f = "synced_at" -> {NoSynced, [NoSynced EXCEPT !["local"] = MaxTime]}

\* entry.sha_hash = entry.compute_hash()
SetHash ==
    /\ pc \in {"new", "hashed"} \cup HashedFields \cup StampFields
    /\ pc # "hashed"
    /\ arg_source' = WithHash(arg_source)
    /\ pc' = "hashed"
    /\ UNCHANGED <<store, clock, conflict_resolution, retry_attempts,
                   retry_backoff, put_outs, put_result, arg_target, resolved,
                   resolved_rev>>
    /\ UNCHANGED syncVars
    /\ UNCHANGED extVars

\* entry.<f> = v, with v another value than the field has
SetField(f, v) ==
    /\ pc \in {"new", "hashed"} \cup HashedFields \cup StampFields
    /\ v # arg_source[f]
    /\ arg_source' = [arg_source EXCEPT ![f] = v]
    /\ pc' = f
    /\ UNCHANGED <<store, clock, conflict_resolution, retry_attempts,
                   retry_backoff, put_outs, put_result, arg_target, resolved,
                   resolved_rev>>
    /\ UNCHANGED syncVars
    /\ UNCHANGED extVars

InitValidate ==
    /\ store = EmptyStore
    /\ clock = 0
    /\ pc = "new"
    /\ conflict_resolution = LAST_WRITE_WINS
    /\ DefaultConfig
    /\ RetryIdle
    /\ SyncIdle
    /\ arg_source = StateEntry("CARD-001", "kanban_card",
                               [NoData EXCEPT !["title"] = 1], NoHash, 0, 0,
                               NoSynced, 1)
    /\ arg_target = NoEntry
    /\ resolved = NoResolution
    /\ resolved_rev = NoResolution
    /\ ExtIdle

NextValidate ==
    \/ SetHash
    \/ \E f \in HashedFields \cup StampFields : \E v \in FieldValues(f) :
           SetField(f, v)

SpecValidate == InitValidate /\ [][NextValidate]_vars

----------------------------------------------------------------------------
(* SpecBoard: KanbanBoard with the default configuration, board "main".    *)
(* The board's KanbanHasher owns a SHAInfinity: chain, hash_index and      *)
(* depth_map are its.  A card id is the number of the card in order of     *)
(* creation (uuid4 gives a fresh id).  type, priority, assignee and labels *)
(* keep the value create_card was called with and are left out.            *)

\* the order of the columns of "main" in _default_config
ColumnOrder ==
    <<"backlog", "qualified", "in_progress", "review", "staging", "deployed">>

\* the columns _default_config gives a wip_limit other than None
Limited == {"qualified", "in_progress", "review", "staging"}

\* wip_limit of the column of a status in Limited
wip_limit(status) ==
    CASE status = "qualified" -> 10
      [] status = "in_progress" -> 5
      [] status = "review" -> 3
      [] status = "staging" -> 2

\* Card._update_hash: sha256_hash of id, title, status, ..., updated_at
CardSha(id, title, status, updated_at) ==
    [card_sha |-> <<id, title, status, updated_at>>]

Card(id, title, status, created_at, updated_at, infinity) ==
    [id |-> id, title |-> title, status |-> status, created_at |-> created_at,
     updated_at |-> updated_at,
     sha_hash |-> CardSha(id, title, status, updated_at),
     infinity_hash |-> infinity]

\* hash_card: the node add_node creates for card_data, without parent, with
\* metadata {"type": "kanban_card", "card_id": card_id}
CardNode(id, title, status, now) ==
    HashNode(DataHash([id |-> id, title |-> title, status |-> status]), 0, now,
             root_hash, <<>>, <<"kanban_card", id>>)

\* if target_column and target_column.wip_limit:
\*     if len(target_column.cards) >= target_column.wip_limit: raise
WipReached(cols, status) ==
    status \in Limited /\ Len(cols[status]) >= wip_limit(status)

\* list.remove: without the first occurrence of x
RemoveFirst(seq, x) ==
    LET first == CHOOSE i \in DOMAIN seq :
                     seq[i] = x /\ \A j \in 1..(i - 1) : seq[j] # x
    IN  [i \in 1..(Len(seq) - 1) |-> IF i < first THEN seq[i] ELSE seq[i + 1]]

\* for col in board.columns: if card_id in col.cards: remove, break
RemoveCard(cols, card_id) ==
    LET Holds(k) == \E i \in DOMAIN cols[ColumnOrder[k]] :
                        cols[ColumnOrder[k]][i] = card_id
    IN  IF \E k \in DOMAIN ColumnOrder : Holds(k)
        THEN LET k == CHOOSE k \in DOMAIN ColumnOrder :
                          Holds(k) /\ \A j \in 1..(k - 1) : ~Holds(j)
             IN  [cols EXCEPT ![ColumnOrder[k]] = RemoveFirst(@, card_id)]
        ELSE cols

ColumnsAtRaise_removed(cols, card_id) == RemoveCard(cols, card_id)

\* the columns when move_card raises ValueError: the WIP test comes before
\* the removal from the old column
ColumnsAtRaise(cols, card_id) == cols

\* self.hasher.hash_card(...): add_node on the hasher's chain
HashCard(node) ==
    /\ chain' = ChainAppend(LinkChild(chain, hash_index, root_hash,
                                      infinity_hash(node)), node)
    /\ hash_index' = (infinity_hash(node) :> (Len(chain) + 1)) @@ hash_index
    /\ depth_map' = DepthAppend(depth_map, node.depth, Len(chain) + 1)

\* create_card(title, type, status=status)
CreateCard(title, status) ==
    /\ pc = "board"
    /\ Len(cards) < MaxCards /\ Len(chain) < MaxHashed
    /\ clock' = clock + 1
    /\ LET id == Len(cards) + 1
           node == CardNode(id, title, status, clock')
       IN  /\ HashCard(node)
           /\ cards' = Append(cards, Card(id, title, status, clock', clock',
                                          infinity_hash(node)))
           /\ columns' = [columns EXCEPT ![status] = Append(@, id)]
           /\ bop' = BoardOp("create_card", id, status, "returned")
    /\ UNCHANGED <<store, pc, conflict_resolution, retry_attempts, retry_backoff,
                   put_outs, put_result, arg_source, arg_target, resolved,
                   resolved_rev, verify_result, op, out, moved_log>>
    /\ UNCHANGED <<syncVars, createVars, healthVars>>

\* move_card(card_id, new_status) for a card id the board does not have
MoveUnknown(card_id, new_status) ==
    /\ pc = "board"
    /\ card_id \notin DOMAIN cards
    /\ bop' = BoardOp("move_card", card_id, new_status, "none")
    /\ UNCHANGED <<store, clock, pc, conflict_resolution, retry_attempts,
                   retry_backoff, put_outs, put_result, arg_source, arg_target,
                   resolved, resolved_rev, chainVars, cards, columns,
                   moved_log>>
    /\ UNCHANGED <<syncVars, createVars, healthVars>>

\* move_card(card_id, new_status) when the target column is at its limit
MoveRejected(card_id, new_status) ==
    /\ pc = "board"
    /\ card_id \in DOMAIN cards
    /\ WipReached(columns, new_status)
    /\ columns' = ColumnsAtRaise(columns, card_id)
    /\ bop' = BoardOp("move_card", card_id, new_status, "raised")
    /\ UNCHANGED <<store, clock, pc, conflict_resolution, retry_attempts,
                   retry_backoff, put_outs, put_result, arg_source, arg_target,
                   resolved, resolved_rev, chainVars, cards, moved_log>>
    /\ UNCHANGED <<syncVars, createVars, healthVars>>

\* move_card(card_id, new_status) otherwise
MoveCard(card_id, new_status) ==
    /\ pc = "board"
    /\ card_id \in DOMAIN cards
    /\ ~WipReached(columns, new_status)
    /\ Len(chain) < MaxHashed
    /\ clock' = clock + 1
    /\ LET card == cards[card_id]
           node == CardNode(card.id, card.title, new_status, clock')
       IN  /\ columns' = [RemoveCard(columns, card_id) EXCEPT
                              ![new_status] = Append(@, card_id)]
           /\ HashCard(node)
           /\ cards' = [cards EXCEPT ![card_id] =
                  Card(card.id, card.title, new_status, card.created_at, clock',
                       infinity_hash(node))]
           /\ moved_log' = Append(moved_log, <<card_id, card.status, new_status>>)
    /\ bop' = BoardOp("move_card", card_id, new_status, "returned")
    /\ UNCHANGED <<store, pc, conflict_resolution, retry_attempts, retry_backoff,
                   put_outs, put_result, arg_source, arg_target, resolved,
                   resolved_rev, verify_result, op, out>>
    /\ UNCHANGED <<syncVars, createVars, healthVars>>

\* update_card(card_id, title=title, status=status): card.update sets the
\* fields, updated_at and sha_hash; the columns are not touched
UpdateCard(card_id, title, status) ==
    /\ pc = "board"
    /\ card_id \in DOMAIN cards
    /\ Len(chain) < MaxHashed
    /\ clock' = clock + 1
    /\ LET card == cards[card_id]
           node == CardNode(card.id, title, status, clock')
       IN  /\ HashCard(node)
           /\ cards' = [cards EXCEPT ![card_id] =
                  Card(card.id, title, status, card.created_at, clock',
                       infinity_hash(node))]
    /\ bop' = BoardOp("update_card", card_id, status, "returned")
    /\ UNCHANGED <<store, pc, conflict_resolution, retry_attempts, retry_backoff,
                   put_outs, put_result, arg_source, arg_target, resolved,
                   resolved_rev, verify_result, op, out, columns, moved_log>>
    /\ UNCHANGED <<syncVars, createVars, healthVars>>

\* the statuses and titles the calls are made with
BoardStatuses == {"backlog", "staging"}
Titles == {"t1", "t2"}

InitBoard ==
    /\ store = EmptyStore
    /\ clock = 0
    /\ pc = "board"
    /\ conflict_resolution = LAST_WRITE_WINS
    /\ DefaultConfig
    /\ SyncIdle
    /\ RetryIdle
    /\ ResolveIdle
    /\ CreateIdle
    /\ HealthIdle
    /\ ChainIdle
    /\ BoardIdle

NextBoard ==
    \/ \E status \in BoardStatuses : CreateCard("t1", status)
    \/ \E card_id \in 1..MaxCards, new_status \in BoardStatuses :
           \/ MoveUnknown(card_id, new_status)
           \/ MoveRejected(card_id, new_status)
           \/ MoveCard(card_id, new_status)
    \/ \E card_id \in 1..MaxCards :
           \/ \E status \in BoardStatuses :
                  UpdateCard(card_id, cards[card_id].title, status)
           \/ \E title \in Titles :
                  UpdateCard(card_id, title, cards[card_id].status)

SpecBoard == InitBoard /\ [][NextBoard]_vars

----------------------------------------------------------------------------
(* Claims about _put_with_retry (SpecRetry) *)

Made == 1..put_result.calls

\* C1: with at least N-1 backoff values, _put_with_retry calls adapter.put at
\* most N times, makes no call after the first one that returns true, returns
\* true exactly when some call it made returned true, and returns false
\* exactly when all N calls returned false or raised.
C1_RetryBound ==
    (pc = "retry_done" /\ Len(retry_backoff) >= retry_attempts - 1) =>
        /\ put_result.calls <= retry_attempts
        /\ \A k \in Made : put_outs[k] = "true" => k = put_result.calls
        /\ put_result.ret \in {"true", "false"}
        /\ put_result.ret = "true" <=> \E k \in Made : put_outs[k] = "true"
        /\ put_result.ret = "false" <=>
               /\ put_result.calls = retry_attempts
               /\ \A k \in 1..retry_attempts : put_outs[k] \in {"false", "raise"}
        /\ (put_result.ret = "true") <=> (store[RetryPlatform]["CARD-001"] = RetryEntry)

\* C1 witness: a run that raised, returned false, then succeeded on the third
\* of four attempts.
C1_Witness ==
    /\ pc = "retry_done"
    /\ retry_attempts = 4
    /\ Len(retry_backoff) >= 3
    /\ put_outs = <<"raise", "false", "true", "false">>
    /\ put_result.ret = "true"
    /\ put_result.calls = 3

\* C15: with any non-empty backoff list, _put_with_retry returns true or
\* false, sleeps once between two consecutive attempts and not after the
\* last, the k-th sleep lasting the k-th backoff value or the list's last
\* value when the list has fewer than k, and makes all N attempts when every
\* put fails.
C15_BackoffClamped ==
    (pc = "retry_done" /\ Len(retry_backoff) >= 1) =>
        /\ put_result.ret \in {"true", "false"}
        /\ Len(put_result.slept) = put_result.calls - 1
        /\ \A k \in 1..Len(put_result.slept) :
               put_result.slept[k] = retry_backoff[Min(k, Len(retry_backoff))]
        /\ (\A k \in 1..retry_attempts : put_outs[k] # "true")
               => put_result.calls = retry_attempts

----------------------------------------------------------------------------
(* Claims about _resolve_conflict (SpecResolve) *)

Resolved(policy) == pc = "resolve_done" /\ conflict_resolution = policy

\* C6: under MERGE the resolved entry has version max(S.version, T.version) + 1,
\* created_at min(S.created_at, T.created_at), the id and type of S, and a
\* sha_hash equal to its compute_hash.
C6_MergeEntry ==
    Resolved(MERGE) =>
        LET S == arg_source
            T == arg_target
            m == resolved.entry
        IN  /\ resolved.which = "merged"
            /\ m.version = (IF S.version >= T.version THEN S.version ELSE T.version) + 1
            /\ m.version > S.version /\ m.version > T.version
            /\ m.created_at <= S.created_at /\ m.created_at <= T.created_at
            /\ m.created_at \in {S.created_at, T.created_at}
            /\ m.id = S.id /\ m.type = S.type
            /\ m.sha_hash = [id |-> m.id, type |-> m.type, data |-> m.data,
                             version |-> m.version]
            /\ validate_hash(m)

\* C6 witness: the spec's scenario, source version 1 and target version 2 of
\* another id and type, resolved to version 3.
C6_Witness ==
    /\ Resolved(MERGE)
    /\ arg_source.version = 1 /\ arg_target.version = 2
    /\ arg_target.id # arg_source.id /\ arg_target.type # arg_source.type
    /\ arg_target.created_at < arg_source.created_at
    /\ resolved.entry.version = 3

\* C7: under MERGE the resolved data has the keys of S.data and T.data, a key
\* of S.data carrying S's value and any other key T's value; the merge of
\* (S, T) and of (T, S) differ in data when S.data and T.data disagree on a
\* common key; the result is a new entry, S and T are as they were.
C7_MergeData ==
    Resolved(MERGE) =>
        LET S == arg_source
            T == arg_target
            m == resolved.entry
            r == resolved_rev.entry
        IN  /\ DataKeys(m.data) = DataKeys(S.data) \cup DataKeys(T.data)
            /\ \A k \in DataKeys(S.data) : m.data[k] = S.data[k]
            /\ \A k \in DataKeys(T.data) \ DataKeys(S.data) : m.data[k] = T.data[k]
            /\ (\E k \in DataKeys(S.data) \cap DataKeys(T.data) : S.data[k] # T.data[k])
                   => m.data # r.data
            /\ resolved.which = "merged"

\* C7 witness: S and T disagree on a common key and each has a key of its own.
C7_Witness ==
    /\ Resolved(MERGE)
    /\ arg_source.data = [title |-> 1, status |-> 1]
    /\ arg_target.data = [title |-> 2, status |-> Absent]
    /\ resolved.entry.data = [title |-> 1, status |-> 1]
    /\ resolved_rev.entry.data = [title |-> 2, status |-> 1]

\* C8: under LAST_WRITE_WINS the result is S itself when
\* S.updated_at >= T.updated_at and T itself otherwise.
C8_LastWriteWins ==
    Resolved(LAST_WRITE_WINS) =>
        /\ arg_source.updated_at >= arg_target.updated_at
               => resolved.which = "source" /\ resolved.entry = arg_source
        /\ arg_source.updated_at < arg_target.updated_at
               => resolved.which = "target" /\ resolved.entry = arg_target
        /\ resolved.entry \in {arg_source, arg_target}

\* C8 witness: equal updated_at, different entries, the source returned.
C8_Witness ==
    /\ Resolved(LAST_WRITE_WINS)
    /\ arg_source.updated_at = arg_target.updated_at
    /\ arg_source.created_at > arg_target.created_at
    /\ arg_source # arg_target
    /\ resolved.entry = arg_source

\* C9: under FIRST_WRITE_WINS the result is S itself when
\* S.created_at <= T.created_at and T itself otherwise.
C9_FirstWriteWins ==
    Resolved(FIRST_WRITE_WINS) =>
        /\ arg_source.created_at <= arg_target.created_at
               => resolved.which = "source" /\ resolved.entry = arg_source
        /\ arg_source.created_at > arg_target.created_at
               => resolved.which = "target" /\ resolved.entry = arg_target
        /\ resolved.entry \in {arg_source, arg_target}

\* C9 witness: equal created_at, the target updated later, the source returned.
C9_Witness ==
    /\ Resolved(FIRST_WRITE_WINS)
    /\ arg_source.created_at = arg_target.created_at
    /\ arg_source.updated_at < arg_target.updated_at
    /\ arg_source # arg_target
    /\ resolved.entry = arg_source

----------------------------------------------------------------------------
(* Claims about one sync run (Spec) *)

\* a target pass has ended: its SyncResult is the last of results, handled
\* is its log and store is as the pass left it
AfterPass == pc \in {"target", "done"} /\ results # <<>>
LastResult == results[Len(results)]

Selected(h) == h.found = "present" /\ (force \/ h.source_hash # h.target_hash)

\* C2: with force = false, a source entry whose counterpart on the target
\* exists with the same sha_hash causes no put to the target and adds
\* nothing to synced, failed or conflicts.
C2_SkipEqualHash ==
    \A k \in 1..Len(handled) :
        (~force /\ handled[k].found = "present"
                /\ handled[k].source_hash = handled[k].target_hash) =>
            /\ ~handled[k].put_called
            /\ handled[k].target_kept
            /\ handled[k].dsynced = 0
            /\ handled[k].dfailed = 0
            /\ handled[k].dconflicts = <<>>

\* C2 witness: a pass over two entries, the first skipped for its equal
\* hash, the second synced, ended with entries_synced = 1.
C2_Witness ==
    /\ AfterPass /\ ~force
    /\ Len(handled) = 2
    /\ handled[1].found = "present"
    /\ handled[1].source_hash = handled[1].target_hash
    /\ handled[1].which = "skip"
    /\ handled[2].dsynced = 1
    /\ LastResult.entries_synced = 1
    /\ LastResult.entries_failed = 0

\* C3: when the target holds no counterpart of any source entry and every
\* write succeeds within the retry budget, the pass ends with entries_synced
\* = number of source entries, entries_failed = 0, conflicts = [], and the
\* target holds each source entry's id with the same sha_hash.
C3_CreateAll ==
    (AfterPass /\ \A k \in 1..Len(handled) :
                      handled[k].found = "absent" /\ handled[k].env_ok) =>
        /\ Len(handled) = Len(source_entries)
        /\ LastResult.entries_synced = Len(source_entries)
        /\ LastResult.entries_failed = 0
        /\ LastResult.conflicts = <<>>
        /\ \A k \in 1..Len(source_entries) :
               LET held == store[LastResult.target][source_entries[k].id]
               IN  /\ held.id = source_entries[k].id
                   /\ held.sha_hash = source_entries[k].sha_hash

\* C3 witness: local -> cloudflare with two entries unknown to cloudflare.
C3_Witness ==
    /\ AfterPass
    /\ LastResult.source = "local" /\ LastResult.target = "cloudflare"
    /\ Len(source_entries) = 2 /\ Len(handled) = 2
    /\ \A k \in 1..2 : handled[k].found = "absent" /\ handled[k].env_ok
    /\ LastResult.entries_synced = 2
    /\ store["cloudflare"]["CARD-001"].sha_hash = source_entries[1].sha_hash
    /\ store["cloudflare"]["CARD-002"].sha_hash = source_entries[2].sha_hash

\* C4: every SyncResult has success = true exactly when entries_failed = 0,
\* whatever its conflicts.
C4_SuccessIffNoFailure ==
    \A k \in 1..Len(results) :
        results[k].success <=> (results[k].entries_failed = 0)

\* C4 witness: a successful result with a conflict and nothing synced.
C4_Witness ==
    \E k \in 1..Len(results) :
        /\ results[k].success
        /\ results[k].conflicts # <<>>
        /\ results[k].entries_synced = 0
        /\ results[k].entries_failed = 0

\* C5: under MANUAL, a source entry whose counterpart exists and is selected
\* for resolution gets no resolution, exactly one conflict record with its
\* id and both hashes, and no put: both stored copies stay as they were.
C5_ManualConflict ==
    \A k \in 1..Len(handled) :
        (conflict_resolution = MANUAL /\ Selected(handled[k])) =>
            /\ handled[k].which = "none"
            /\ handled[k].dconflicts =
                   <<[entry_id |-> handled[k].id,
                      source_hash |-> handled[k].source_hash,
                      target_hash |-> handled[k].target_hash]>>
            /\ \E c \in 1..Len(conflicts) : conflicts[c].entry_id = handled[k].id
            /\ ~handled[k].put_called
            /\ handled[k].source_kept /\ handled[k].target_kept
            /\ handled[k].dsynced = 0 /\ handled[k].dfailed = 0

\* C5 witness: a MANUAL pass that recorded a conflict between different
\* hashes and left the target's copy, with the target's hash, in place.
C5_Witness ==
    /\ AfterPass
    /\ conflict_resolution = MANUAL
    /\ \E k \in 1..Len(handled) :
           /\ Selected(handled[k])
           /\ handled[k].source_hash # handled[k].target_hash
           /\ handled[k].target_has = handled[k].target_hash
    /\ Len(LastResult.conflicts) = 1

\* C12: a source entry or a target counterpart whose sha_hash is not the
\* hash of its id, type, data and version is reported in the result (counted
\* as failed or listed in conflicts) and nothing is written to the target.
C12_HashMismatchReported ==
    \A k \in 1..Len(handled) :
        (~handled[k].source_valid \/ ~handled[k].target_valid) =>
            /\ handled[k].dfailed = 1 \/ handled[k].dconflicts # <<>>
            /\ handled[k].target_kept

\* C13: sync never raises to its caller because an adapter operation failed.
C13_SyncNeverRaises == pc # "raised"

\* the targets of the call that get a pass
PassTargets == {k \in DOMAIN targets : targets[k] # source}

\* C14: an exception of the target adapter while one entry is processed (get
\* raised, or put raised on every attempt) adds exactly one to failed and
\* nothing to synced or conflicts; every pass handles every source entry and
\* a returned run has one result per target other than the source.
C14_AdapterErrorCounted ==
    /\ \A k \in 1..Len(handled) :
           (handled[k].found = "error" \/ handled[k].all_raised) =>
               /\ handled[k].dfailed = 1
               /\ handled[k].dsynced = 0
               /\ handled[k].dconflicts = <<>>
    /\ AfterPass =>
           /\ Len(handled) = Len(source_entries)
           /\ LastResult.entries_failed =
                  Cardinality({k \in 1..Len(handled) : handled[k].dfailed = 1})
    /\ pc = "done" => Len(results) = Cardinality(PassTargets)

\* C14 witness: a returned run over two targets and two entries; in the last
\* pass every put of the first entry raised and the second entry was synced,
\* and the first pass also counted a failure and a synced entry.
C14_Witness ==
    /\ pc = "done"
    /\ Len(results) = 2
    /\ results[1].entries_failed = 1 /\ results[1].entries_synced = 1
    /\ Len(handled) = 2
    /\ handled[1].all_raised /\ handled[1].dfailed = 1
    /\ handled[2].dsynced = 1
    /\ results[2].entries_failed = 1 /\ results[2].entries_synced = 1

----------------------------------------------------------------------------
(* Claims about create_entry (SpecCreate) *)

\* C16: the entry create_entry returns has the key of a platform in
\* synced_at only if a put of the entry to that platform returned true.
C16_SyncedOnlyAfterPut ==
    pc = "created" =>
        \A p \in Platform :
            created.synced_at[p] # NoTime =>
                \E k \in 1..Len(put_log) :
                    put_log[k].platform = p /\ put_log[k].ret = "true"

----------------------------------------------------------------------------
(* Claims about health_check_all (SpecHealth) *)

\* C18: health_check_all returns a map with one boolean per platform of
\* self.adapters: what the platform's health_check returned, or false when
\* it raised; an adapter that raises stops neither the call nor the probes
\* of the adapters after it.
C18_HealthCheckAll ==
    /\ \A k \in 1..Len(AdapterOrder) :
           LET p == AdapterOrder[k]
           IN  IF k < hi
               THEN /\ health[p] \in {"true", "false"}
                    /\ health[p] = "true" <=> probes[p] = "true"
               ELSE health[p] = "unset"
    /\ pc = "health_done" =>
           /\ hi = Len(AdapterOrder) + 1
           /\ \A p \in Platform : health[p] \in {"true", "false"}
    /\ {AdapterOrder[k] : k \in 1..Len(AdapterOrder)} = Platform

\* C18 witness: the first adapter's probe raised, a later one returned True
\* and another False; all four are in the returned map.
C18_Witness ==
    /\ pc = "health_done"
    /\ probes["salesforce"] = "raise" /\ health["salesforce"] = "false"
    /\ probes["cloudflare"] = "true" /\ health["cloudflare"] = "true"
    /\ probes["github"] = "raise" /\ health["github"] = "false"
    /\ probes["local"] = "false" /\ health["local"] = "false"

----------------------------------------------------------------------------
(* Claims about the hash chain (SpecChain) *)

\* what a verify_chain_integrity call in the current state returns
VerifyNow == verify_chain_integrity(chain, hash_index)

\* C19: in every state reached by add_node and verify_chain_integrity
\* calls, verify_chain_integrity returns (true, []).
C19_AddNodeChainValid ==
    /\ VerifyNow.errors = <<>>
    /\ verify_result.valid /\ verify_result.errors = <<>>

\* C19 witness: a verified chain of three nodes: a root node, a child of it,
\* and a node added under a hash that no node has; the root node, whose hash
\* changed with its child, has been indexed again.
C19_Witness ==
    /\ verify_result.called /\ verify_result.valid
    /\ Len(chain) = 3
    /\ chain[2].depth = 1 /\ chain[2].parent_hash \in DOMAIN hash_index
    /\ chain[3].depth = 0 /\ chain[3].parent_hash = UnknownHash
    /\ Cardinality(DOMAIN hash_index) = 4

\* the nodes whose parent_hash is neither a key of hash_index nor root_hash
Dangling == {k \in DOMAIN chain : /\ chain[k].parent_hash \notin DOMAIN hash_index
                                   /\ chain[k].parent_hash # root_hash}

\* C20: verify_chain_integrity reports exactly one error for every node
\* whose parent_hash is neither a key of hash_index nor the root hash, and
\* then returns valid = false.
C20_DanglingParentReported ==
    \A k \in Dangling :
        /\ Cardinality({e \in DOMAIN VerifyNow.errors : VerifyNow.errors[e].node = k}) = 1
        /\ verify_result.called => ~verify_result.valid

\* C21: add_node called with a parent hash that is not a key of hash_index
\* creates no node (it raises instead).
C21_UnknownParentRejected ==
    [][(op' = "add_node" /\ out'.parent # None
                         /\ out'.parent \notin DOMAIN hash_index)
           => chain' = chain]_vars

\* C22: add_node without a parent creates a node of depth 0 whose
\* parent_hash is root_hash; add_node with a key of hash_index creates a
\* node one deeper than the node under that key and appends the new node's
\* infinity hash to that node's children_hashes; the children_hashes of
\* every other node stay as they were.
C22_AddNodeLinks ==
    [][(op' = "add_node" /\ chain' # chain) =>
           LET n == chain'[Len(chain')]
               parent == out'.parent
           IN  /\ n.children_hashes = <<>>
               /\ parent = None =>
                      /\ n.depth = 0 /\ n.parent_hash = root_hash
                      /\ \A k \in DOMAIN chain : chain'[k] = chain[k]
               /\ (parent # None /\ parent \in DOMAIN hash_index) =>
                      LET par == hash_index[parent]
                      IN  /\ n.parent_hash = parent
                          /\ n.depth = chain[par].depth + 1
                          /\ chain'[par].children_hashes =
                                 Append(chain[par].children_hashes, infinity_hash(n))
                          /\ \A k \in DOMAIN chain \ {par} : chain'[k] = chain[k]]_vars

\* C22 witness: a node added without a parent, then two nodes added under
\* its key: both have depth 1 and the first node lists both hashes.
C22_Witness ==
    /\ op = "add_node" /\ out.parent # None /\ out.node = 3
    /\ Len(chain) = 3
    /\ chain[1].depth = 0 /\ chain[1].parent_hash = root_hash
    /\ chain[2].depth = 1 /\ chain[3].depth = 1
    /\ chain[2].children_hashes = <<>>
    /\ chain[1].children_hashes = <<infinity_hash(chain[2]), infinity_hash(chain[3])>>

\* C23: add_node makes the chain one node longer, no other operation
\* changes its length, and no operation changes the position, data_hash,
\* depth, timestamp or parent_hash of a node that is in the chain.
C23_AppendOnly ==
    [][/\ op' = "add_node" => Len(chain') = Len(chain) + 1
       /\ op' # "add_node" => Len(chain') = Len(chain)
       /\ \A k \in DOMAIN chain :
              /\ k \in DOMAIN chain'
              /\ chain'[k].data_hash = chain[k].data_hash
              /\ chain'[k].depth = chain[k].depth
              /\ chain'[k].timestamp = chain[k].timestamp
              /\ chain'[k].parent_hash = chain[k].parent_hash]_vars

\* C23 witness: a third node added under the first after the chain of two
\* was verified; the first node has both children.
C23_Witness ==
    /\ op = "add_node" /\ out.node = 3
    /\ Len(chain) = 3
    /\ Len(chain[1].children_hashes) = 2
    /\ Cardinality(DOMAIN hash_index) = 4

\* the positions of the nodes of the greatest depth, in chain order
Deepest ==
    LET top == CHOOSE d \in {chain[k].depth : k \in DOMAIN chain} :
                   \A k \in DOMAIN chain : chain[k].depth <= d
        IsTop(k) == chain[k].depth = top
    IN  SelectSeq([k \in DOMAIN chain |-> k], IsTop)

\* the infinity hash of the i-th deepest node
Leaf(i) == infinity_hash(chain[Deepest[i]])

\* C24: compute_merkle_root returns root_hash for an empty chain; for one
\* deepest node a its infinity hash, for two H(a+b), for three
\* H(H(a+b) + H(c+c)), for four H(H(a+b) + H(c+d)).
C24_MerkleRoot ==
    op = "compute_merkle_root" =>
        IF chain = <<>> THEN out = root_hash
        ELSE /\ Len(Deepest) = 1 => out = Leaf(1)
             /\ Len(Deepest) = 2 => out = PairHash(Leaf(1), Leaf(2))
             /\ Len(Deepest) = 3 =>
                    out = PairHash(PairHash(Leaf(1), Leaf(2)),
                                   PairHash(Leaf(3), Leaf(3)))
             /\ Len(Deepest) = 4 =>
                    out = PairHash(PairHash(Leaf(1), Leaf(2)),
                                   PairHash(Leaf(3), Leaf(4)))

\* C24 witness: three different nodes of depth 0 and their root.
C24_Witness ==
    /\ op = "compute_merkle_root"
    /\ Len(chain) = 3 /\ Len(Deepest) = 3
    /\ Leaf(1) # Leaf(2) /\ Leaf(2) # Leaf(3) /\ Leaf(1) # Leaf(3)
    /\ out = PairHash(PairHash(Leaf(1), Leaf(2)), PairHash(Leaf(3), Leaf(3)))

\* C25: adding a node to a non-empty chain, at any depth, changes what
\* compute_merkle_root returns.
C25_MerkleCoversChain ==
    [][(op' = "add_node" /\ chain # <<>>) =>
           compute_merkle_root(chain', depth_map') #
               compute_merkle_root(chain, depth_map)]_vars

\* C26: verify_chain_integrity leaves chain, depth_map and hash_index as
\* they were.
C26_VerifyOnlyReports ==
    [][op' = "verify_chain_integrity" =>
           /\ chain' = chain
           /\ depth_map' = depth_map
           /\ hash_index' = hash_index]_vars

\* C27: import_chain(export_chain(c)) has the root hash of c, as many nodes
\* as c, each with the data_hash, depth, timestamp, parent_hash and metadata
\* of the node of c at its position, the depth_map of c, and a
\* compute_merkle_root equal to the exported merkle_root.
C27_ExportImport ==
    op = "import_chain" =>
        LET inst == out.instance
        IN  /\ inst.root_hash = root_hash
            /\ Len(inst.chain) = Len(chain)
            /\ \A k \in DOMAIN chain :
                   /\ inst.chain[k].data_hash = chain[k].data_hash
                   /\ inst.chain[k].depth = chain[k].depth
                   /\ inst.chain[k].timestamp = chain[k].timestamp
                   /\ inst.chain[k].parent_hash = chain[k].parent_hash
                   /\ inst.chain[k].metadata = chain[k].metadata
            /\ inst.depth_map = depth_map
            /\ compute_merkle_root(inst.chain, inst.depth_map) = out.data.merkle_root
            /\ out.data.merkle_root = compute_merkle_root(chain, depth_map)

\* C27 witness: the round trip of a chain of three nodes of depths 0, 1, 0
\* whose first node has a child, so that its infinity hash is not the one
\* the imported first node has.
C27_Witness ==
    /\ op = "import_chain"
    /\ Len(chain) = 3 /\ Len(out.instance.chain) = 3
    /\ chain[2].depth = 1 /\ chain[3].depth = 0
    /\ chain[1].children_hashes # <<>>
    /\ infinity_hash(out.instance.chain[1]) # infinity_hash(chain[1])
    /\ out.data.nodes[1].children_count = 1

\* C35: every node of the chain is indexed under the value its
\* infinity_hash has now: that value is a key of hash_index and the key
\* leads to the node.
C35_IndexedUnderCurrentHash ==
    \A k \in DOMAIN chain :
        /\ infinity_hash(chain[k]) \in DOMAIN hash_index
        /\ hash_index[infinity_hash(chain[k])] = k

\* the places <<depth, index>> of depth_map dm
Places(dm) == {pl \in (DOMAIN dm) \X (1..MaxChain) : pl[2] <= Len(dm[pl[1]])}

\* dm partitions ch: no bucket is empty, a bucket holds nodes of its depth
\* in chain order, every node is at one place and at one only
Partitions(dm, ch) ==
    /\ \A d \in DOMAIN dm :
           /\ dm[d] # <<>>
           /\ \A i \in DOMAIN dm[d] :
                  /\ dm[d][i] \in DOMAIN ch
                  /\ ch[dm[d][i]].depth = d
                  /\ \A j \in DOMAIN dm[d] : i < j => dm[d][i] < dm[d][j]
    /\ \A k \in DOMAIN ch :
           Cardinality({pl \in Places(dm) : dm[pl[1]][pl[2]] = k}) = 1
    /\ Cardinality(Places(dm)) = Len(ch)

\* C36: depth_map partitions the chain, in the chain add_node builds and in
\* the chain import_chain returns: every node is once in depth_map, in the
\* bucket of its depth and in creation order within it, no bucket is empty,
\* and the bucket sizes add up to the chain length.
C36_DepthMapPartitions ==
    /\ Partitions(depth_map, chain)
    /\ op = "import_chain" =>
           Partitions(out.instance.depth_map, out.instance.chain)

\* C36 witness: an imported chain of three nodes, two of depth 0 around one
\* of depth 1.
C36_Witness ==
    /\ op = "import_chain"
    /\ Len(out.instance.chain) = 3
    /\ DOMAIN out.instance.depth_map = {0, 1}
    /\ out.instance.depth_map[0] = <<1, 3>>
    /\ out.instance.depth_map[1] = <<2>>
    /\ depth_map = out.instance.depth_map

\* C37: when verify_chain_integrity is valid on a chain, it is valid on
\* import_chain(export_chain()) of that chain.
C37_ImportKeepsValid ==
    (op = "import_chain" /\ VerifyNow.errors = <<>>) =>
        verify_chain_integrity(out.instance.chain,
                               out.instance.hash_index).errors = <<>>

\* the iterations within the budget whose rehash has the pattern
Hits == {i \in out.zeros : i < out.max_iterations}

\* C28: compute_infinity_hash(max_iterations) makes at most max_iterations
\* rehashes; the iteration count it returns is between 0 and
\* max_iterations, is max_iterations exactly when no rehash within the
\* budget has the pattern, and is otherwise the first iteration that has.
C28_InfinityHashBounded ==
    op = "compute_infinity_hash" =>
        LET r == out.returned
        IN  /\ r.steps <= out.max_iterations
            /\ r.iteration >= 0 /\ r.iteration <= out.max_iterations
            /\ r.iteration = out.max_iterations <=> Hits = {}
            /\ Hits # {} =>
                   /\ r.iteration \in Hits
                   /\ \A i \in Hits : r.iteration <= i

\* C28 witness: a budget of two, the pattern met by the second rehash only.
C28_Witness ==
    /\ op = "compute_infinity_hash"
    /\ out.max_iterations = 2 /\ out.zeros = {1}
    /\ out.returned.iteration = 1 /\ out.returned.steps = 2
    /\ Len(chain) = 1

\* the elements of targets that differ from the source, in order
OtherTargets ==
    LET Other(t) == t # source
    IN  SelectSeq(targets, Other)

\* C30: no step of sync changes what the source adapter holds; a step
\* changes what a platform holds only if the platform is the target being
\* processed, which is not the source; the returned list has one SyncResult
\* per element of targets that differs from the source, in that order, each
\* naming the source.
C30_SourceUntouched ==
    [][/\ store'[source] = store[source]
       /\ \A p \in Platform :
              store'[p] # store[p] =>
                  /\ pc = "entry" /\ p = targets[ti] /\ p # source
       /\ pc' = "done" =>
              /\ Len(results') = Len(OtherTargets)
              /\ \A k \in DOMAIN results' :
                     /\ results'[k].target = OtherTargets[k]
                     /\ results'[k].source = source]_vars

\* C30 witness: targets [local, cloudflare] from local: one SyncResult, for
\* cloudflare, which has taken at least one put.
C30_Witness ==
    /\ pc = "done"
    /\ targets = <<"local", "cloudflare">>
    /\ Len(results) = 1
    /\ results[1].target = "cloudflare"
    /\ results[1].entries_synced >= 1
    /\ store["local"]["CARD-001"] # NoEntry
    /\ store["cloudflare"]["CARD-001"] # NoEntry

\* C31: in every conflict record of every SyncResult, source_hash differs
\* from target_hash, under every policy and value of force.
C31_ConflictHashesDiffer ==
    \A k \in DOMAIN results : \A c \in DOMAIN results[k].conflicts :
        results[k].conflicts[c].source_hash # results[k].conflicts[c].target_hash

\* C32: what a pass over one target does with a source entry (the entry it
\* writes to the target, synced_at included, and what it adds to the
\* target's counters and conflicts) is what the pass would do with the
\* entry as the source holds it, that is, as a run over this target alone
\* would find it: it does not depend on the targets processed before.
C32_TargetsIndependent ==
    [][(pc = "entry" /\ ei <= Len(source_entries) /\ ei' = ei + 1) =>
           \E io \in EntryInputs(retry_attempts) :
               \E alone \in {EntryStep(store, targets[ti],
                                       Listing(store[source], Ids)[ei], force,
                                       conflict_resolution, retry_attempts,
                                       retry_backoff, clock, io[1], io[2])} :
                   /\ store' = alone.store_after
                   /\ synced' = synced + alone.dsynced
                   /\ failed' = failed + alone.dfailed
                   /\ conflicts' = conflicts \o alone.dconflicts]_vars

\* C33: after a pass over a target that ends with entries_failed = 0 and no
\* conflicts under a policy other than MANUAL, the target holds, for every
\* entry the source holds, an entry with the same sha_hash.
C33_SyncConverges ==
    (/\ AfterPass
     /\ conflict_resolution # MANUAL
     /\ LastResult.entries_failed = 0
     /\ LastResult.conflicts = <<>>) =>
        \A i \in Ids :
            store[source][i] # NoEntry =>
                store[LastResult.target][i].sha_hash = store[source][i].sha_hash

\* the source entries of the last pass that were found equal and skipped
Skipped == {k \in DOMAIN handled : handled[k].which = "skip"}

\* C34: in the pass behind every SyncResult each source entry was synced,
\* failed, recorded as a conflict or skipped, and only one of these; so
\* entries_synced + entries_failed + the number of conflicts is the number
\* of source entries minus the number of skipped ones, and never more than
\* the number of source entries.
C34_OutcomePartition ==
    AfterPass =>
        /\ Len(handled) = Len(source_entries)
        /\ \A k \in DOMAIN handled :
               handled[k].dsynced + handled[k].dfailed
                   + Len(handled[k].dconflicts)
                   + (IF k \in Skipped THEN 1 ELSE 0) = 1
        /\ LastResult.entries_synced + LastResult.entries_failed
               + Len(LastResult.conflicts)
               = Len(source_entries) - Cardinality(Skipped)
        /\ LastResult.entries_synced + LastResult.entries_failed
               + Len(LastResult.conflicts) <= Len(source_entries)

\* C34 witness: of two source entries one was skipped and the other failed.
C34_Witness ==
    /\ AfterPass
    /\ Len(source_entries) = 2
    /\ Cardinality(Skipped) = 1
    /\ LastResult.entries_failed = 1
    /\ LastResult.entries_synced = 0 /\ LastResult.conflicts = <<>>

----------------------------------------------------------------------------
(* Claims about the kanban board (SpecBoard) *)

\* C38: no column with a wip_limit lists more cards than its wip_limit.
C38_WipLimitKept ==
    \A s \in Limited : Len(columns[s]) <= wip_limit(s)

\* the columns that list a card, by status
ColumnsOf(card_id) ==
    {s \in CardStatus : \E i \in DOMAIN columns[s] : columns[s][i] = card_id}

\* C39: every card of the board is listed in one column and once, the
\* column of the card's status.
C39_CardInItsColumn ==
    \A k \in DOMAIN cards :
        /\ ColumnsOf(k) = {cards[k].status}
        /\ Cardinality({i \in DOMAIN columns[cards[k].status] :
                            columns[cards[k].status][i] = k}) = 1

\* C40: a move_card call that raises because the target column has reached
\* its WIP limit leaves the cards (status, updated_at, hashes), the card
\* lists of all columns and the hasher's chain as they were, and no
\* on_card_moved hook is called.
C40_RejectedMoveNoEffect ==
    [][bop'.ended = "raised" =>
           /\ cards' = cards
           /\ columns' = columns
           /\ chain' = chain /\ hash_index' = hash_index
           /\ depth_map' = depth_map
           /\ moved_log' = moved_log]_vars

\* C40 witness: with two cards in staging, the move of a third card from
\* backlog to staging was rejected.
C40_Witness ==
    /\ bop = BoardOp("move_card", 3, "staging", "raised")
    /\ columns["staging"] = <<1, 2>>
    /\ columns["backlog"] = <<3>>
    /\ cards[3].status = "backlog"
    /\ Len(chain) = 3

----------------------------------------------------------------------------
(* Claims about StateEntry.validate_hash (SpecValidate) *)

\* C29: validate_hash is true right after sha_hash is set to compute_hash();
\* an assignment of another value to id, type, data or version makes a valid
\* entry invalid; an assignment to created_at, updated_at or synced_at
\* leaves validate_hash as it was, so a valid entry stays valid.
C29_ValidateRoundTrip ==
    [][/\ pc' = "hashed" => validate_hash(arg_source')
       /\ (pc' \in HashedFields /\ validate_hash(arg_source)) =>
              ~validate_hash(arg_source')
       /\ pc' \in StampFields =>
              validate_hash(arg_source') = validate_hash(arg_source)]_vars

\* C29 witness: an entry that was hashed and had synced_at and updated_at
\* assigned since is valid after a further assignment to created_at.
C29_Witness ==
    /\ pc = "created_at"
    /\ validate_hash(arg_source)
    /\ arg_source.version = MaxVersion /\ arg_source.id = "CARD-002"
    /\ arg_source.synced_at # NoSynced
    /\ arg_source.updated_at = MaxTime /\ arg_source.created_at = MaxTime

----------------------------------------------------------------------------
(* Claims about successive sync runs (SpecRuns) *)

\* C10: the version of the entry a platform stores under an id never
\* decreases, under every policy and any value of force.
C10_VersionNeverDecreases ==
    [][\A p \in Platform, i \in Ids :
          store[p][i] # NoEntry => store'[p][i].version >= store[p][i].version]_vars

\* C11: over sync runs under any policy, the synced_at of the entry a
\* platform stores under an id never loses a key and no key's timestamp
\* decreases.
C11_SyncedAtMonotone ==
    [][\A p \in Platform, i \in Ids, q \in Platform :
          store[p][i].synced_at[q] # NoTime =>
              /\ store'[p][i].synced_at[q] # NoTime
              /\ store'[p][i].synced_at[q] >= store[p][i].synced_at[q]]_vars

====
